---- MODULE Spec2Model ----
(***************************************************************************)
(* Model of the shared-memory SPSC ring buffer of assassinate.ipc.shm      *)
(* (class RingBuffer): one mapping [write_pos: 8][read_pos: 8][pad: 48]    *)
(* [data: capacity], one writer endpoint running try_write and one reader  *)
(* endpoint running try_read, each through its own mmap object.            *)
(*                                                                         *)
(* Every statement of try_write / try_read that touches the mapping is a   *)
(* step of its own, so the two endpoints interleave at the granularity of  *)
(* the mmap calls.  Loads and stores of the two 8-byte counters are taken  *)
(* as single accesses performed in program order (the reading the source   *)
(* states for its x86-64 target in _read_atomic_u64/_write_atomic_u64).    *)
(*                                                                         *)
(* mmap.seek/read/write follow CPython's mmap object: write raises         *)
(* ValueError ("data out of range") and writes nothing when the bytes do   *)
(* not fit before the end of the mapping; read returns the bytes up to the *)
(* end of the mapping; struct.unpack("<I", b) raises struct.error when b   *)
(* is shorter than 4 bytes.                                                *)
(***************************************************************************)
EXTENDS Integers, Sequences, FiniteSets, TLC

(* ------------------------------ bounds --------------------------------- *)

\* capacity passed to RingBuffer.__init__ (bytes of the data area)
Capacity == 10

\* try_write is not started once write_pos has reached this value
MaxPos == 16

\* number of distinct payload contents per length
NTags == 2

\* the short payload lengths offered to try_write are 0..MaxSmall
MaxSmall == 2

\* number of invocations of MsfClient._call, each by a task of its own
MaxCalls == 2

\* frames the request ring holds before try_write raises BufferFullError
RingFrames == 1

\* frames the response ring holds before the daemon waits for room
RespFrames == 2

\* connect() is not issued once this many reader tasks have lost their reference
MaxOrphans == 1

\* OS threads that use the synchronous facade
NThreads == 2

\* top-level calls all threads make together
MaxOps == 2

\* SyncMsfClient objects that sync_api.get_client may construct
MaxFacades == 2

\* MsfClient objects the facades' coroutines may construct
MaxClients == 2

(* ------------------------ class constants ------------------------------ *)

WRITE_POS_OFFSET == 0
READ_POS_OFFSET == 8
DATA_OFFSET == 64
HEADER_SIZE == 4

\* self.total_size = self.DATA_OFFSET + capacity
total_size == DATA_OFFSET + Capacity

\* the values of one byte of the mapping
Byte == 0..255

(* ------------------------- struct pack/unpack -------------------------- *)

RECURSIVE PackLE(_, _)
\* struct.pack little-endian: n bytes of v, least significant first
PackLE(v, n) == IF n = 0 THEN << >> ELSE <<v % 256>> \o PackLE(v \div 256, n - 1)

RECURSIVE UnpackFrom(_, _)
\* value of the bytes b[i..], least significant first
UnpackFrom(b, i) == IF i > Len(b) THEN 0 ELSE b[i] + 256 * UnpackFrom(b, i + 1)

\* struct.unpack little-endian of a byte string
UnpackLE(b) == UnpackFrom(b, 1)

(* ------------------------------ mmap ----------------------------------- *)

\* mmap.read(n) at file position pos: the bytes up to the end of the mapping
mmap_read(m, pos, n) ==
    LET k == IF pos >= total_size THEN 0
             ELSE IF n <= total_size - pos THEN n ELSE total_size - pos
    IN [bytes |-> [i \in 1..k |-> m[pos + i - 1]], pos |-> pos + k]

\* copy bytes into the mapping starting at offset pos
StoreBytes(m, pos, bytes) ==
    [a \in DOMAIN m |-> IF a >= pos /\ a < pos + Len(bytes) THEN bytes[a - pos + 1] ELSE m[a]]

\* a write into the data area that wraps the physical offset at the end of
\* the area instead of refusing (the split-at-the-modulus layout)
mmap_write_wrapping(m, pos, bytes) ==
    LET phys(i) == DATA_OFFSET + ((pos - DATA_OFFSET + i - 1) % Capacity)
    IN IF pos < DATA_OFFSET
       THEN [ok |-> TRUE, mem |-> StoreBytes(m, pos, bytes), pos |-> pos + Len(bytes)]
       ELSE [ok |-> TRUE,
             mem |-> [a \in DOMAIN m |->
                        IF \E i \in 1..Len(bytes) : phys(i) = a
                        THEN bytes[CHOOSE i \in 1..Len(bytes) : phys(i) = a]
                        ELSE m[a]],
             pos |-> DATA_OFFSET + ((pos - DATA_OFFSET + Len(bytes)) % Capacity)]

\* mmap.write(bytes) at file position pos: ValueError, nothing written, when
\* the bytes do not fit before the end of the mapping
mmap_write(m, pos, bytes) ==
    IF pos > total_size \/ total_size - pos < Len(bytes)
    THEN [ok |-> FALSE, mem |-> m, pos |-> pos]
    ELSE [ok |-> TRUE, mem |-> StoreBytes(m, pos, bytes), pos |-> pos + Len(bytes)]

\* RingBuffer._read_atomic_u64
_read_atomic_u64(m, offset) == UnpackLE(mmap_read(m, offset, 8).bytes)

\* a store that ignores its offset argument and always hits the first counter
_write_atomic_u64_first(m, offset, value) ==
    mmap_write(m, WRITE_POS_OFFSET, PackLE(value, 8)).mem

\* RingBuffer._write_atomic_u64
_write_atomic_u64(m, offset, value) == mmap_write(m, offset, PackLE(value, 8)).mem

(* ----------------------------- payloads -------------------------------- *)

\* payload of length L with content tag t: bytes 16t+1, 16t+2, ...
Payload(L, t) == [i \in 1..L |-> 16 * t + i]

\* the payload lengths offered to try_write: the short ones, the longest
\* that can ever fit (capacity - 4) and the shortest that never fits
PayloadLens == (0..MaxSmall) \cup {Capacity - HEADER_SIZE, Capacity - HEADER_SIZE + 1}

\* the payloads offered to try_write
Payloads == { Payload(L, t) : L \in PayloadLens, t \in 1..NTags }

(* ------------------------------- state --------------------------------- *)

VARIABLES
    mem,        \* the shared mapping: byte at every offset 0..total_size-1
    attached,   \* per endpoint: its RingBuffer holds an open mmap
    pc_w,       \* writer's position inside try_write
    w,          \* writer's locals (data, msg_size, write_pos, read_pos, pos)
    wres,       \* outcome of the writer's current/last try_write
    pc_r,       \* reader's position inside try_read
    r,          \* reader's locals (write_pos, read_pos, msg_len, data, pos)
    rres,       \* outcome of the reader's current/last try_read
    queue,      \* history: frames published and not yet returned by a read
    rexpect     \* history: the oldest unread payload when the last read returned

vars == <<mem, attached, pc_w, w, wres, pc_r, r, rres, queue, rexpect>>

Endpoints == {"writer", "reader"}

\* State of one MsfClient (assassinate.ipc.client) on its asyncio loop, the
\* two rings it is attached to, reduced to the frames they hold, and the
\* daemon at the far end of them.
VARIABLES
    request_buffer,         \* self.request_buffer is not None
    response_buffer,        \* self.response_buffer is not None
    next_call_id,           \* self.next_call_id
    _pending_calls,         \* keys of self._pending_calls (each maps to fut[id])
    _response_reader_task,  \* the task self._response_reader_task refers to
    orphans,                \* live reader tasks the client no longer refers to
    _shutdown,              \* self._shutdown
    fut,                    \* the asyncio.Future created for each call id
    call,                   \* per caller task: its position inside _call
    dis,                    \* the task running disconnect()
    req_ring,               \* frames in the request ring, oldest first
    resp_ring,              \* frames in the response ring, oldest first
    work,                   \* requests the daemon has taken and not answered
    hist                    \* history of the run, read only by the properties

cvars == <<request_buffer, response_buffer, next_call_id, _pending_calls,
           _response_reader_task, orphans, _shutdown, fut, call, dis,
           req_ring, resp_ring, work, hist>>

\* State of the synchronous facade (assassinate.ipc.sync) and of the global
\* client of assassinate.bridge.sync_api, used from several OS threads.
VARIABLES
    _client,    \* sync_api._client: 0 for None, else the SyncMsfClient it refers to
    facade,     \* per SyncMsfClient: _loop, _thread, _async_client, _started, _lock
    loops,      \* the event loops created, each with the thread made to run it
    clients,    \* the MsfClient objects created by _create_and_connect
    th          \* per OS thread: its position in the code of the facade

fvars == <<_client, facade, loops, clients, th>>

\* A frame handed to deserialize_response and what the decoder and the reader
\* make of it, for the claims about decoding alone.
VARIABLES
    frame,      \* the unpacked message
    decoded     \* the outcome of deserialize_response and of the reader's branch

dvars == <<frame, decoded>>

\* State of the module assassinate.bridge.core around its global client, the
\* MsfClient above.
VARIABLES
    core_client,    \* core._client is not None
    reader_loop     \* the event loop the reader task was created on:
                    \* "none", "running", or "closed" once asyncio.run has returned

\* State of the threads that call the MsfClient above through one
\* SyncMsfClient, of which it is the _async_client.
VARIABLES
    pump            \* per OS thread: its position in _run_coro, the call it
                    \* submitted and what future.result() gave it last

bvars == <<core_client, reader_loop, pump>>

allvars == <<vars, cvars, fvars, dvars, bvars>>

\* the two counters of the header and the data area, as stored in the mapping
WritePosOf(m) == _read_atomic_u64(m, WRITE_POS_OFFSET)
ReadPosOf(m) == _read_atomic_u64(m, READ_POS_OFFSET)
write_pos == WritePosOf(mem)
read_pos == ReadPosOf(mem)
DataArea(m) == [i \in 0..(Capacity - 1) |-> m[DATA_OFFSET + i]]

\* utilization truncated to a whole number (floor division)
utilization_floor(m) ==
    [num |-> (_read_atomic_u64(m, WRITE_POS_OFFSET) - _read_atomic_u64(m, READ_POS_OFFSET))
                \div Capacity,
     den |-> 1]

\* RingBuffer.utilization: used / capacity, kept as the exact fraction
utilization(m) ==
    [num |-> _read_atomic_u64(m, WRITE_POS_OFFSET) - _read_atomic_u64(m, READ_POS_OFFSET),
     den |-> Capacity]

\* order and zero test on the fractions utilization returns
FracLess(a, b) == a.num * b.den < b.num * a.den
FracZero(a) == a.num = 0

\* what a read is compared with when no frame is outstanding
NoFrame == <<-1>>

\* The creator zero-fills the region; no endpoint is attached yet.
Init ==
    /\ mem = [a \in 0..(total_size - 1) |-> 0]
    /\ attached = [e \in Endpoints |-> FALSE]
    /\ pc_w = "idle"
    /\ w = [data |-> << >>, msg_size |-> 0, write_pos |-> 0, read_pos |-> 0,
            pos |-> 0]
    /\ wres = "none"
    /\ pc_r = "idle"
    /\ r = [write_pos |-> 0, read_pos |-> 0, msg_len |-> 0, data |-> << >>, pos |-> 0]
    /\ rres = "none"
    /\ queue = << >>
    /\ rexpect = NoFrame

(* ------------------------- open / close -------------------------------- *)

\* RingBuffer.__init__: map the existing region; nothing is formatted
RingBuffer_init(e) ==
    /\ ~attached[e]
    /\ attached' = [attached EXCEPT ![e] = TRUE]
    /\ w' = IF e = "writer" THEN [w EXCEPT !.pos = 0] ELSE w
    /\ r' = IF e = "reader" THEN [r EXCEPT !.pos = 0] ELSE r
    /\ UNCHANGED <<mem, pc_w, wres, pc_r, rres, queue, rexpect>>
    /\ UNCHANGED <<cvars, fvars, dvars, bvars>>

\* RingBuffer.close: release the local mapping; the region persists
close(e) ==
    /\ attached[e]
    /\ IF e = "writer" THEN pc_w = "idle" ELSE pc_r = "idle"
    /\ attached' = [attached EXCEPT ![e] = FALSE]
    /\ UNCHANGED <<mem, pc_w, w, wres, pc_r, r, rres, queue, rexpect>>
    /\ UNCHANGED <<cvars, fvars, dvars, bvars>>

(* ----------------------------- try_write ------------------------------- *)

\* the refusal test with the header left out of the size
BufferFullCond_NoHeader(available, msg_size) == available < msg_size - HEADER_SIZE

\* if available < msg_size: raise BufferFullError
BufferFullCond(available, msg_size) == available < msg_size

\* a length header that counts the header itself
FrameHeader_WithSize(data) == PackLE(HEADER_SIZE + Len(data), 4)

\* struct.pack("<I", len(data))
FrameHeader(data) == PackLE(Len(data), 4)

\* msg_size = HEADER_SIZE + len(data); write_pos = load(WRITE_POS_OFFSET)
try_write_begin(d) ==
    /\ pc_w = "idle"
    /\ attached["writer"]
    /\ write_pos < MaxPos
    /\ w' = [data |-> d, msg_size |-> HEADER_SIZE + Len(d),
             write_pos |-> _read_atomic_u64(mem, WRITE_POS_OFFSET),
             read_pos |-> 0, pos |-> WRITE_POS_OFFSET + 8]
    /\ wres' = "running"
    /\ pc_w' = "check"
    /\ UNCHANGED <<mem, attached, pc_r, r, rres, queue, rexpect>>
    /\ UNCHANGED <<cvars, fvars, dvars, bvars>>

\* read_pos = load(READ_POS_OFFSET); available = capacity - (write_pos - read_pos)
try_write_check ==
    /\ pc_w = "check"
    /\ LET rp == _read_atomic_u64(mem, READ_POS_OFFSET)
           available == Capacity - (w.write_pos - rp)
       IN /\ w' = [w EXCEPT !.read_pos = rp, !.pos = READ_POS_OFFSET + 8]
          /\ IF BufferFullCond(available, w.msg_size)
             THEN pc_w' = "idle" /\ wres' = "BufferFull"
             ELSE pc_w' = "header" /\ wres' = wres
    /\ UNCHANGED <<mem, attached, pc_r, r, rres, queue, rexpect>>
    /\ UNCHANGED <<cvars, fvars, dvars, bvars>>

\* seek(write_offset); mmap.write(struct.pack("<I", len(data)))
try_write_header ==
    /\ pc_w = "header"
    /\ LET write_offset == (w.write_pos % Capacity) + DATA_OFFSET
           res == mmap_write(mem, write_offset, FrameHeader(w.data))
       IN /\ mem' = res.mem
          /\ w' = [w EXCEPT !.pos = res.pos]
          /\ IF res.ok
             THEN pc_w' = "data" /\ wres' = wres
             ELSE pc_w' = "idle" /\ wres' = "ValueError"
    /\ UNCHANGED <<attached, pc_r, r, rres, queue, rexpect>>
    /\ UNCHANGED <<cvars, fvars, dvars, bvars>>

\* mmap.write(data)
try_write_data ==
    /\ pc_w = "data"
    /\ LET res == mmap_write(mem, w.pos, w.data)
       IN /\ mem' = res.mem
          /\ w' = [w EXCEPT !.pos = res.pos]
          /\ IF res.ok
             THEN pc_w' = "publish" /\ wres' = wres
             ELSE pc_w' = "idle" /\ wres' = "ValueError"
    /\ UNCHANGED <<attached, pc_r, r, rres, queue, rexpect>>
    /\ UNCHANGED <<cvars, fvars, dvars, bvars>>

\* _write_atomic_u64(WRITE_POS_OFFSET, write_pos + msg_size)
try_write_publish ==
    /\ pc_w = "publish"
    /\ mem' = _write_atomic_u64(mem, WRITE_POS_OFFSET, w.write_pos + w.msg_size)
    /\ w' = [w EXCEPT !.pos = WRITE_POS_OFFSET + 8]
    /\ wres' = "ok"
    /\ pc_w' = "idle"
    /\ queue' = Append(queue, [start |-> w.write_pos, data |-> w.data])
    /\ UNCHANGED <<attached, pc_r, r, rres, rexpect>>
    /\ UNCHANGED <<cvars, fvars, dvars, bvars>>

(* ----------------------------- try_read -------------------------------- *)

\* an emptiness test that only recognises a reader ahead of the writer
BufferEmptyCond_Less(wp, rp) == wp < rp

\* if write_pos == read_pos: raise BufferEmptyError
BufferEmptyCond(wp, rp) == wp = rp

\* a new read position that leaves the header out
NextReadPos_NoHeader(rp, msg_len) == rp + msg_len

\* read_pos + self.HEADER_SIZE + msg_len
NextReadPos(rp, msg_len) == rp + HEADER_SIZE + msg_len

\* write_pos = load(WRITE_POS_OFFSET)
try_read_begin ==
    /\ pc_r = "idle"
    /\ attached["reader"]
    /\ r' = [write_pos |-> _read_atomic_u64(mem, WRITE_POS_OFFSET), read_pos |-> 0,
             msg_len |-> 0, data |-> << >>, pos |-> WRITE_POS_OFFSET + 8]
    /\ rres' = "running"
    /\ pc_r' = "check"
    /\ UNCHANGED <<mem, attached, pc_w, w, wres, queue, rexpect>>
    /\ UNCHANGED <<cvars, fvars, dvars, bvars>>

\* read_pos = load(READ_POS_OFFSET); empty test
try_read_check ==
    /\ pc_r = "check"
    /\ LET rp == _read_atomic_u64(mem, READ_POS_OFFSET)
       IN /\ r' = [r EXCEPT !.read_pos = rp, !.pos = READ_POS_OFFSET + 8]
          /\ IF BufferEmptyCond(r.write_pos, rp)
             THEN pc_r' = "idle" /\ rres' = "BufferEmpty"
             ELSE pc_r' = "header" /\ rres' = rres
    /\ UNCHANGED <<mem, attached, pc_w, w, wres, queue, rexpect>>
    /\ UNCHANGED <<cvars, fvars, dvars, bvars>>

\* seek(read_offset); msg_len = struct.unpack("<I", mmap.read(HEADER_SIZE))[0]
try_read_header ==
    /\ pc_r = "header"
    /\ LET read_offset == (r.read_pos % Capacity) + DATA_OFFSET
           rd == mmap_read(mem, read_offset, HEADER_SIZE)
       IN IF Len(rd.bytes) = HEADER_SIZE
          THEN /\ r' = [r EXCEPT !.msg_len = UnpackLE(rd.bytes), !.pos = rd.pos]
               /\ pc_r' = "data" /\ rres' = rres
          ELSE /\ r' = [r EXCEPT !.pos = rd.pos]
               /\ pc_r' = "idle" /\ rres' = "struct.error"
    /\ UNCHANGED <<mem, attached, pc_w, w, wres, queue, rexpect>>
    /\ UNCHANGED <<cvars, fvars, dvars, bvars>>

\* data = mmap.read(msg_len)
try_read_data ==
    /\ pc_r = "data"
    /\ LET rd == mmap_read(mem, r.pos, r.msg_len)
       IN r' = [r EXCEPT !.data = rd.bytes, !.pos = rd.pos]
    /\ pc_r' = "publish"
    /\ UNCHANGED <<mem, attached, pc_w, w, wres, rres, queue, rexpect>>
    /\ UNCHANGED <<cvars, fvars, dvars, bvars>>

\* _write_atomic_u64(READ_POS_OFFSET, read_pos + HEADER_SIZE + msg_len); return data
try_read_publish ==
    /\ pc_r = "publish"
    /\ mem' = _write_atomic_u64(mem, READ_POS_OFFSET, NextReadPos(r.read_pos, r.msg_len))
    /\ r' = [r EXCEPT !.pos = READ_POS_OFFSET + 8]
    /\ rres' = "ok"
    /\ pc_r' = "idle"
    /\ rexpect' = IF queue = << >> THEN NoFrame ELSE Head(queue).data
    /\ queue' = IF queue = << >> THEN queue ELSE Tail(queue)
    /\ UNCHANGED <<attached, pc_w, w, wres>>
    /\ UNCHANGED <<cvars, fvars, dvars, bvars>>

(* ============================ MsfClient ================================ *)
(* The asynchronous client of assassinate.ipc.client on its event loop.    *)
(* The loop is single-threaded and cooperative: a task runs from one await *)
(* to the next without interruption, so each action below is one such      *)
(* segment.  Time is not measured: a timer may fire at any moment after it *)
(* is armed.  asyncio.wait_for follows CPython 3.11: when the timer fires  *)
(* or the task is cancelled, the waiting task is woken, and on waking it   *)
(* returns the future's outcome if there is one, else cancels the future.  *)
(* A timer or a cancellation is therefore only felt by a task that wakes   *)
(* with its future still pending, and firing and waking are one step here. *)
(* Both rings are reduced to the sequence of frames they hold.             *)
(* ======================================================================= *)

\* the invocations of _call, numbered in the order they start
Callers == 1..MaxCalls
Ids == 1..MaxCalls

\* the value None; every other value is a record too
Null == [none |-> TRUE]

\* serialize_call: the request envelope
serialize_call(call_id, method, args) ==
    [call_id |-> call_id, request |-> [method |-> method, args |-> args]]

\* what the daemon answers to a request: a result or an error built from it
ReplyResult(q) == [call_id |-> q.call_id,
                   response |-> [result |-> [result_of |-> q.call_id]],
                   error |-> Null]
ReplyError(q) == [call_id |-> q.call_id,
                  response |-> Null,
                  error |-> [code |-> <<"code", q.call_id>>,
                            message |-> <<"message", q.call_id>>]]

\* a frame the daemon's answer decodes to nothing from: neither a response
\* nor an error
ReplyMalformed(q) == [call_id |-> q.call_id, response |-> Null, error |-> Null]

\* the frame the daemon writes for request q, by the kind of its answer
Reply(q, kind) ==
    CASE kind = "result" -> ReplyResult(q)
      [] kind = "error" -> ReplyError(q)
      [] OTHER -> ReplyMalformed(q)

\* the kinds of answer
ReplyKinds == {"result", "error", "malformed"}

\* deserialize_response: (call_id, result, error) or DeserializationError
\* A key that is absent raises KeyError and so DeserializationError, as does
\* a message with neither a response nor an error; a response that is not
\* {"result": ...} is returned as it is.
DeserializationError(data) ==
    [ok |-> FALSE, call_id |-> IF "call_id" \in DOMAIN data THEN data.call_id ELSE 0,
     result |-> Null, error |-> Null]
deserialize_response_ErrorAsResult(data) ==
    IF "call_id" \notin DOMAIN data THEN DeserializationError(data)
    ELSE IF "response" \in DOMAIN data /\ data.response # Null
    THEN [ok |-> TRUE, call_id |-> data.call_id,
          result |-> IF "result" \in DOMAIN data.response THEN data.response.result
                     ELSE data.response,
          error |-> Null]
    ELSE [ok |-> TRUE, call_id |-> data.call_id, result |-> Null, error |-> Null]
deserialize_response(data) ==
    IF "call_id" \notin DOMAIN data THEN DeserializationError(data)
    ELSE IF "response" \in DOMAIN data /\ data.response # Null
    THEN [ok |-> TRUE, call_id |-> data.call_id,
          result |-> IF "result" \in DOMAIN data.response THEN data.response.result
                     ELSE data.response,
          error |-> Null]
    ELSE IF "error" \in DOMAIN data /\ data.error # Null
    THEN IF {"code", "message"} \subseteq DOMAIN data.error
         THEN [ok |-> TRUE, call_id |-> data.call_id, result |-> Null,
               error |-> [code |-> data.error.code, message |-> data.error.message]]
         ELSE DeserializationError(data)
    ELSE DeserializationError(data)

\* a future nobody has created yet, and one fresh from loop.create_future()
NoFuture == [st |-> "unset", val |-> Null]
NewFuture == [st |-> "pending", val |-> Null]

\* the futures something still refers to, the pending table or a caller
\* suspended on one; the others are gone
Collect(f, pending, c) ==
    [i \in Ids |->
        IF i \in pending \/ \E k \in Callers : c[k].pc = "await" /\ c[k].id = i
        THEN f[i] ELSE NoFuture]

\* an invocation of _call that has not started yet
NewCall == [pc |-> "new", id |-> 0, outcome |-> "none", val |-> Null]

\* an invocation of _call that has returned or raised
Returned(id, outcome, val) ==
    [pc |-> "done", id |-> id, outcome |-> outcome, val |-> val]

\* the connected check of _call passes
Connected_RequestOnly == request_buffer
Connected == request_buffer /\ response_buffer

\* number of reader tasks that have not finished
LiveReaders == (IF _response_reader_task = "live" THEN 1 ELSE 0) + orphans

\* nothing has happened on the client yet.  issued, written: the call ids
\* taken and those written to the request ring; dropped: ids of replies
\* dropped; raised: next_call_id at the last exception in the reader; since:
\* next_call_id when disconnect() last began; ahead: the last read took a
\* reply that sat ahead of the reply to an earlier call
NewHistory ==
    [issued |-> << >>, dropped |-> {}, raised |-> 0, since |-> 0, written |-> << >>,
     ahead |-> FALSE]

\* MsfClient.__init__, the regions as the daemon created them, an idle daemon
ClientInit ==
    /\ request_buffer = FALSE
    /\ response_buffer = FALSE
    /\ next_call_id = 1
    /\ _pending_calls = {}
    /\ _response_reader_task = "none"
    /\ orphans = 0
    /\ _shutdown = FALSE
    /\ fut = [i \in Ids |-> NoFuture]
    /\ call = [k \in Callers |-> NewCall]
    /\ dis = [pc |-> "idle", outcome |-> "none"]
    /\ req_ring = << >>
    /\ resp_ring = << >>
    /\ work = {}
    /\ hist = NewHistory

(* ------------------------- connect / disconnect ------------------------ *)

\* the value connect stores in _shutdown
ShutdownAfterConnect_Kept == _shutdown
ShutdownAfterConnect == FALSE

\* MsfClient.connect: open both rings, clear _shutdown, create the reader
\* task.  req, resp: whether the request and the response region exist;
\* RingBuffer raises IpcError for a region that does not, and connect
\* re-raises it with the assignments made so far in place
connect(req, resp) ==
    /\ dis.pc = "idle"
    /\ CASE ~req ->
              UNCHANGED <<request_buffer, response_buffer, _shutdown, orphans,
                          _response_reader_task, hist>>
         [] req /\ ~resp ->
              /\ request_buffer' = TRUE
              /\ UNCHANGED <<response_buffer, _shutdown, orphans, _response_reader_task, hist>>
         [] OTHER ->
              /\ _response_reader_task = "live" => orphans < MaxOrphans
              /\ request_buffer' = TRUE
              /\ response_buffer' = TRUE
              /\ _shutdown' = ShutdownAfterConnect
              /\ orphans' = IF _response_reader_task = "live" THEN orphans + 1 ELSE orphans
              /\ _response_reader_task' = "live"
              /\ UNCHANGED hist
    /\ UNCHANGED <<next_call_id, _pending_calls, fut, call, dis, req_ring, resp_ring, work>>
    /\ UNCHANGED <<vars, fvars, dvars, bvars>>

\* the tail of disconnect: close both rings and forget them
CloseBuffers ==
    /\ request_buffer' = FALSE
    /\ response_buffer' = FALSE

\* MsfClient.disconnect up to its first suspension: set _shutdown and wait
\* for the reader task; with no task, or a finished one, run to the end
disconnect_begin ==
    /\ dis.pc = "idle"
    /\ _shutdown' = TRUE
    /\ CASE _response_reader_task = "live" ->
              /\ dis' = [pc |-> "waiting", outcome |-> "running"]
              /\ hist' = [hist EXCEPT !.since = next_call_id]
              /\ UNCHANGED <<request_buffer, response_buffer>>
         [] _response_reader_task = "cancelled" ->
              \* awaiting a cancelled task raises CancelledError out of disconnect
              /\ dis' = [pc |-> "idle", outcome |-> "CancelledError"]
              /\ hist' = [hist EXCEPT !.since = next_call_id]
              /\ UNCHANGED <<request_buffer, response_buffer>>
         [] OTHER ->
              /\ dis' = [pc |-> "idle", outcome |-> "ok"]
              /\ CloseBuffers
              /\ hist' = [hist EXCEPT !.since = next_call_id]
    /\ UNCHANGED <<next_call_id, _pending_calls, _response_reader_task, orphans, fut, call,
                   req_ring, resp_ring, work>>
    /\ UNCHANGED <<vars, fvars, dvars, bvars>>

\* wait_for(self._response_reader_task, 2.0) returns: the task has finished
ReaderDone_Always(task) == TRUE
ReaderDone(task) == task # "live"

\* disconnect wakes after the reader task has exited: both rings are closed
disconnect_resume ==
    /\ dis.pc = "waiting"
    /\ ReaderDone(_response_reader_task)
    /\ CloseBuffers
    /\ dis' = [pc |-> "idle", outcome |-> "ok"]
    /\ UNCHANGED <<next_call_id, _pending_calls, _response_reader_task, orphans, _shutdown,
                   fut, call, req_ring, resp_ring, work, hist>>
    /\ UNCHANGED <<vars, fvars, dvars, bvars>>

\* the 2.0 s grace period of disconnect elapses with the reader task still
\* alive: the task is cancelled, then both rings are closed
disconnect_grace ==
    /\ dis.pc = "waiting"
    /\ _response_reader_task = "live"
    /\ _response_reader_task' = "cancelled"
    /\ CloseBuffers
    /\ dis' = [pc |-> "idle", outcome |-> "ok"]
    /\ UNCHANGED <<next_call_id, _pending_calls, orphans, _shutdown, fut, call,
                   req_ring, resp_ring, work, hist>>
    /\ UNCHANGED <<vars, fvars, dvars, bvars>>

(* ------------------------------ the reader ----------------------------- *)

\* what one iteration of _response_reader does with a decoded reply d, given
\* the pending table and the futures: the branch of lines 136-157 it takes
ReaderBranch_Raise(d, pending, f) ==
    CASE ~d.ok -> "error"
      [] d.call_id \notin pending -> "error"
      [] f[d.call_id].st = "cancelled" -> "skipped"
      [] d.error # Null -> "set_exception"
      [] OTHER -> "set_result"
ReaderBranch_SetsCancelled(d, pending, f) ==
    CASE ~d.ok -> "error"
      [] d.call_id \notin pending -> "dropped"
      [] f[d.call_id].st = "cancelled" -> "error"
      [] d.error # Null -> "set_exception"
      [] OTHER -> "set_result"
ReaderBranch(d, pending, f) ==
    CASE ~d.ok -> "error"
      [] d.call_id \notin pending -> "dropped"
      [] f[d.call_id].st = "cancelled" -> "skipped"
      [] d.error # Null -> "set_exception"
      [] OTHER -> "set_result"

\* the pending entry a reply is routed to: the one under the reply's call id
RouteTarget_Oldest(d, pending) ==
    IF pending = {} THEN d.call_id
    ELSE CHOOSE i \in pending : \A j \in pending : i <= j
RouteTarget(d, pending) == d.call_id

\* the exception object RemoteError(code, message)
RemoteError_CodeOnly(code, message) == [code |-> code, message |-> code]
RemoteError(code, message) == [code |-> code, message |-> message]

\* whether the reader task goes on to its next iteration after a branch:
\* the handlers of the loop catch every Exception and continue
ReaderSurvives_NotError(branch) == branch # "error"
ReaderSurvives(branch) == TRUE

\* Future.set_result / Future.set_exception on the routed future
Complete(f, id, branch, d) ==
    CASE branch = "set_result" -> [f EXCEPT ![id] = [st |-> "result", val |-> d.result]]
      [] branch = "set_exception" ->
             [f EXCEPT ![id] = [st |-> "exception",
                                val |-> RemoteError(d.error.code, d.error.message)]]
      [] OTHER -> f

\* a reader task (the one the client references, or an older one a second
\* connect() left running) finds _shutdown set at the top of its loop and ends
reader_exit(t) ==
    /\ _shutdown
    /\ \/ /\ t = "task"
          /\ _response_reader_task = "live"
          /\ _response_reader_task' = "done"
          /\ UNCHANGED orphans
       \/ /\ t = "orphan"
          /\ orphans > 0
          /\ orphans' = orphans - 1
          /\ UNCHANGED _response_reader_task
    /\ UNCHANGED <<request_buffer, response_buffer, next_call_id, _pending_calls, _shutdown,
                   fut, call, dis, req_ring, resp_ring, work, hist>>
    /\ UNCHANGED <<vars, fvars, dvars, bvars>>

\* one iteration of a reader task that finds a frame: try_read, decode,
\* pop the pending entry, complete its future or drop the reply
reader_read(t) ==
    /\ ~_shutdown
    /\ response_buffer
    /\ resp_ring # << >>
    /\ \/ t = "task" /\ _response_reader_task = "live"
       \/ t = "orphan" /\ orphans > 0
    /\ LET d == deserialize_response(Head(resp_ring))
           target == RouteTarget(d, _pending_calls)
           branch == ReaderBranch(d, _pending_calls, fut)
       IN /\ resp_ring' = Tail(resp_ring)
          /\ _pending_calls' = IF d.ok THEN _pending_calls \ {target} ELSE _pending_calls
          /\ fut' = Collect(Complete(fut, target, branch, d), _pending_calls', call)
          /\ hist' = [hist EXCEPT !.raised = IF branch = "error" THEN next_call_id ELSE @,
                                  !.dropped = IF branch = "dropped" THEN @ \cup {d.call_id} ELSE @,
                                  !.ahead = /\ Len(resp_ring) > 1
                                            /\ resp_ring[2].call_id < d.call_id]
          /\ _response_reader_task' =
                IF t = "task" /\ ~ReaderSurvives(branch) THEN "done" ELSE _response_reader_task
          /\ orphans' = IF t = "orphan" /\ ~ReaderSurvives(branch) THEN orphans - 1 ELSE orphans
    /\ UNCHANGED <<request_buffer, response_buffer, next_call_id, _shutdown, call, dis,
                   req_ring, work>>
    /\ UNCHANGED <<vars, fvars, dvars, bvars>>

(* ------------------------------ the daemon ----------------------------- *)

\* the daemon reads the next request from the request ring
daemon_take ==
    /\ req_ring # << >>
    /\ work' = work \cup {Head(req_ring)}
    /\ req_ring' = Tail(req_ring)
    /\ UNCHANGED <<request_buffer, response_buffer, next_call_id, _pending_calls,
                   _response_reader_task, orphans, _shutdown, fut, call, dis, resp_ring, hist>>
    /\ UNCHANGED <<vars, fvars, dvars, bvars>>

\* the daemon answers a request it has read, in any order, with a result or
\* an error carrying the request's call id, or with a frame that does not decode
daemon_reply(q, kind) ==
    /\ q \in work
    /\ Len(resp_ring) < RespFrames
    /\ resp_ring' = Append(resp_ring, Reply(q, kind))
    /\ work' = work \ {q}
    /\ UNCHANGED <<request_buffer, response_buffer, next_call_id, _pending_calls,
                   _response_reader_task, orphans, _shutdown, fut, call, dis, req_ring, hist>>
    /\ UNCHANGED <<vars, fvars, dvars, bvars>>

(* ------------------------------- _call --------------------------------- *)

\* the id a call takes and the value next_call_id has afterwards
NextId_Same(n) == n
NextId(n) == n + 1

\* the handlers of _call that run self._pending_calls.pop(call_id, None):
\* asyncio.TimeoutError and Exception, of which CancelledError is neither
PopsPending_NotOnTimeout(exc) == exc \in {"SerializationError", "BufferFullError", "ValueError"}
PopsPending(exc) == exc \in {"Timeout", "SerializationError", "BufferFullError", "ValueError"}

\* the pending table after _call leaves with exception exc
AfterRaise_ClearsAll(pending, id, exc) == {}
AfterRaise(pending, id, exc) == IF PopsPending(exc) THEN pending \ {id} ELSE pending

\* try_write finds less free space in the ring than the frame needs
RingFull_Never(ring) == FALSE
RingFull(ring) == Len(ring) >= RingFrames

\* _call from its entry to its first suspension: the connected check, the
\* id, the future, the pending entry, serialize_call and try_write.
\* serializable: whether msgpack can pack the arguments; fault: whether
\* try_write fails on a frame that does not fit the mapping contiguously
call_begin(k, serializable, fault) ==
    /\ call[k].pc = "new"
    /\ k > 1 => call[k - 1].pc # "new"
    /\ IF ~Connected
       THEN /\ call' = [call EXCEPT ![k] = Returned(0, "NotConnected", Null)]
            /\ UNCHANGED <<next_call_id, _pending_calls, fut, req_ring, hist>>
       ELSE /\ LET id == next_call_id
                   exc == CASE ~serializable -> "SerializationError"
                            [] RingFull(req_ring) -> "BufferFullError"
                            [] fault -> "ValueError"
                            [] OTHER -> "none"
               IN /\ next_call_id' = NextId(next_call_id)
                  /\ hist' = [hist EXCEPT !.issued = Append(@, id),
                                           !.written = IF exc = "none" THEN Append(@, id) ELSE @]
                  /\ IF exc = "none"
                     THEN /\ _pending_calls' = _pending_calls \cup {id}
                          /\ req_ring' = Append(req_ring, serialize_call(id, "method", << >>))
                          /\ call' = [call EXCEPT ![k] = [NewCall EXCEPT !.pc = "await", !.id = id]]
                     ELSE /\ _pending_calls' = AfterRaise(_pending_calls \cup {id}, id, exc)
                          /\ req_ring' = req_ring
                          /\ call' = [call EXCEPT ![k] = Returned(id, exc, Null)]
                  /\ fut' = Collect([fut EXCEPT ![id] = NewFuture], _pending_calls', call')
    /\ UNCHANGED <<request_buffer, response_buffer, _response_reader_task, orphans, _shutdown,
                   dis, resp_ring, work>>
    /\ UNCHANGED <<vars, fvars, dvars, bvars>>

\* the caller wakes inside wait_for with its future completed by the reader:
\* _call returns the result, or raises the RemoteError the future holds
call_return(k) ==
    /\ call[k].pc = "await"
    /\ LET id == call[k].id
           f == fut[id]
       IN /\ f.st \in {"result", "exception"}
          /\ call' = [call EXCEPT ![k] =
                         Returned(id, IF f.st = "result" THEN "result" ELSE "RemoteError", f.val)]
          /\ _pending_calls' = IF f.st = "result" THEN _pending_calls
                                ELSE AfterRaise(_pending_calls, id, "RemoteError")
          /\ fut' = Collect(fut, _pending_calls', call')
    /\ UNCHANGED <<request_buffer, response_buffer, next_call_id, _response_reader_task,
                   orphans, _shutdown, dis, req_ring, resp_ring, work, hist>>
    /\ UNCHANGED <<vars, fvars, dvars, bvars>>

\* the timeout of wait_for elapses and the caller wakes with its future
\* still pending: wait_for cancels the future and raises TimeoutError, and
\* the handler of _call for it runs.  Between the cancellation and the
\* handler the reader can only meet the entry with its future cancelled,
\* the state call_cancelled leaves, where it pops the entry and skips it
call_timeout(k) ==
    /\ call[k].pc = "await"
    /\ LET id == call[k].id
       IN /\ fut[id].st = "pending"
          /\ _pending_calls' = AfterRaise(_pending_calls, id, "Timeout")
          /\ call' = [call EXCEPT ![k] = Returned(id, "Timeout", Null)]
          /\ fut' = Collect([fut EXCEPT ![id] = [st |-> "cancelled", val |-> Null]],
                             _pending_calls', call')
    /\ UNCHANGED <<request_buffer, response_buffer, next_call_id, _response_reader_task,
                   orphans, _shutdown, dis, req_ring, resp_ring, work, hist>>
    /\ UNCHANGED <<vars, fvars, dvars, bvars>>

\* the application cancels the task suspended in _call and the caller wakes
\* with its future still pending: wait_for cancels the future and
\* CancelledError leaves _call through whatever handler matches it
call_cancelled(k) ==
    /\ call[k].pc = "await"
    /\ LET id == call[k].id
       IN /\ fut[id].st = "pending"
          /\ _pending_calls' = AfterRaise(_pending_calls, id, "CancelledError")
          /\ call' = [call EXCEPT ![k] = Returned(id, "CancelledError", Null)]
          /\ fut' = Collect([fut EXCEPT ![id] = [st |-> "cancelled", val |-> Null]],
                             _pending_calls', call')
    /\ UNCHANGED <<request_buffer, response_buffer, next_call_id, _response_reader_task,
                   orphans, _shutdown, dis, req_ring, resp_ring, work, hist>>
    /\ UNCHANGED <<vars, fvars, dvars, bvars>>

(* ------------------------------ decoding ------------------------------- *)

\* a message without keys, and a message with key k when it is present
NoKeys == [k \in {} |-> Null]
Key(present, k, v) == IF present THEN k :> v ELSE NoKeys

\* the shapes of the "response" and "error" entries of an unpacked message
ResponseShapes == {"absent", "null", "result", "result_null", "bare"}
ErrorShapes == {"absent", "null", "error", "code_only", "empty"}

\* the "response" entry: absent, None, {"result": value}, {"result": None},
\* or a value that is not a dict holding "result"
ResponseEntry(shape) ==
    CASE shape = "absent" -> NoKeys
      [] shape = "null" -> "response" :> Null
      [] shape = "result" -> "response" :> [result |-> [result_of |-> 1]]
      [] shape = "result_null" -> "response" :> [result |-> Null]
      [] OTHER -> "response" :> [bare |-> TRUE]

\* the "error" entry: absent, None, {"code", "message"}, {"code"} or {}
ErrorEntry(shape) ==
    CASE shape = "absent" -> NoKeys
      [] shape = "null" -> "error" :> Null
      [] shape = "error" -> "error" :> [code |-> <<"code", 1>>, message |-> <<"message", 1>>]
      [] shape = "code_only" -> "error" :> [code |-> <<"code", 1>>]
      [] OTHER -> "error" :> NoKeys

\* the unpacked message with call id c (0: no "call_id" key) and the two entries
Message(c, rshape, eshape) ==
    Key(c # 0, "call_id", c) @@ ResponseEntry(rshape) @@ ErrorEntry(eshape)

\* nothing decoded yet
NotDecoded == [done |-> FALSE]

\* no message has arrived
DecodeInit ==
    /\ frame = NoKeys
    /\ decoded = NotDecoded

\* try_read returns a message
receive(c, rshape, eshape) ==
    /\ frame' = Message(c, rshape, eshape)
    /\ decoded' = NotDecoded
    /\ UNCHANGED <<vars, cvars, fvars, bvars>>

\* the reader decodes the message and, every call id being pending with a
\* pending future, takes its branch of lines 136-157
decode ==
    /\ ~decoded.done
    /\ LET d == deserialize_response(frame)
       IN decoded' = [done |-> TRUE, d |-> d,
                      branch |-> ReaderBranch(d, Ids, [i \in Ids |-> NewFuture])]
    /\ UNCHANGED frame
    /\ UNCHANGED <<vars, cvars, fvars, bvars>>

(* ------------------------- the synchronous facade ----------------------- *)

Threads == 1..NThreads
Facades == 1..MaxFacades

\* SyncMsfClient.__init__: the fields of a new facade (0 stands for None;
\* _lock is 0 when free, else the thread that holds it)
NewFacade ==
    [made |-> TRUE, _loop |-> 0, _thread |-> 0, _async_client |-> 0,
     _started |-> FALSE, _lock |-> 0]

\* a SyncMsfClient that has not been constructed
NoFacade == [NewFacade EXCEPT !.made = FALSE]

\* a thread outside the facade, having made ops top-level calls
Idle(ops) ==
    [pc |-> "idle", stack |-> << >>, op |-> "none", self |-> 0, kind |-> "none",
     m |-> 0, res |-> 0, done |-> FALSE, ops |-> ops]

\* a method returns to its caller, or to the code outside the facade
Return(rec) ==
    IF rec.stack = << >> THEN Idle(rec.ops)
    ELSE [rec EXCEPT !.pc = Head(rec.stack), !.stack = Tail(rec.stack)]

\* a method calls another and continues at ret when it returns
Invoke(rec, target, ret) == [rec EXCEPT !.pc = target, !.stack = <<ret>> \o rec.stack]

\* the top-level calls made so far by threads 1..n
RECURSIVE OpsMade(_)
OpsMade(n) == IF n = 0 THEN 0 ELSE th[n].ops + OpsMade(n - 1)

\* thread t is outside the facade and may make a call; the threads are
\* interchangeable, so they make their first calls in the order of their numbers
MayCall(t) ==
    /\ th[t].pc = "idle"
    /\ OpsMade(NThreads) < MaxOps
    /\ t > 1 => th[t - 1].ops > 0

\* the facades constructed so far
Made == {f \in Facades : facade[f].made}

\* module import of sync_api: no global client, no facade, no thread inside
FacadeInit ==
    /\ _client = 0
    /\ facade = [f \in Facades |-> NoFacade]
    /\ loops = << >>
    /\ clients = << >>
    /\ th = [t \in Threads |-> Idle(0)]

\* sync_api.get_client is called: `if _client is None`
get_client(t) ==
    /\ MayCall(t)
    /\ th' = [th EXCEPT ![t] = [Idle(@.ops + 1) EXCEPT
                  !.op = "get_client",
                  !.pc = IF _client = 0 THEN "g_new" ELSE "g_return"]]
    /\ UNCHANGED <<_client, facade, loops, clients>>
    /\ UNCHANGED <<vars, cvars, dvars, bvars>>

\* `_client = SyncMsfClient()`
get_client_new(t) ==
    /\ th[t].pc = "g_new"
    /\ Cardinality(Made) < MaxFacades
    /\ LET n == Cardinality(Made) + 1
       IN /\ facade' = [facade EXCEPT ![n] = NewFacade]
          /\ _client' = n
    /\ th' = [th EXCEPT ![t].pc = "g_connect"]
    /\ UNCHANGED <<loops, clients>>
    /\ UNCHANGED <<vars, cvars, dvars, bvars>>

\* `_client.connect()`: the global is read again and connect is entered
get_client_connect(t) ==
    /\ th[t].pc = "g_connect"
    /\ th' = [th EXCEPT ![t] = Invoke([@ EXCEPT !.self = _client], "c_started", "g_return")]
    /\ UNCHANGED <<_client, facade, loops, clients>>
    /\ UNCHANGED <<vars, cvars, dvars, bvars>>

\* `return _client`
get_client_return(t) ==
    /\ th[t].pc = "g_return"
    /\ th' = [th EXCEPT ![t] = Idle(@.ops)]
    /\ UNCHANGED <<_client, facade, loops, clients>>
    /\ UNCHANGED <<vars, cvars, dvars, bvars>>

\* SyncMsfClient.connect is called on facade f
sync_connect(t, f) ==
    /\ MayCall(t)
    /\ f \in Made
    /\ th' = [th EXCEPT ![t] = [Idle(@.ops + 1) EXCEPT
                  !.op = "connect", !.self = f, !.pc = "c_started"]]
    /\ UNCHANGED <<_client, facade, loops, clients>>
    /\ UNCHANGED <<vars, cvars, dvars, bvars>>

\* connect: `if not self._started: self._start_loop()`
sync_connect_started(t) ==
    /\ th[t].pc = "c_started"
    /\ th' = [th EXCEPT ![t] =
                 IF ~facade[@.self]._started THEN Invoke(@, "s_lock", "c_client")
                 ELSE [@ EXCEPT !.pc = "c_client"]]
    /\ UNCHANGED <<_client, facade, loops, clients>>
    /\ UNCHANGED <<vars, cvars, dvars, bvars>>

\* connect: `if self._async_client is None:` and the call of _run_coro
sync_connect_client(t) ==
    /\ th[t].pc = "c_client"
    /\ th' = [th EXCEPT ![t] =
                 IF facade[@.self]._async_client = 0
                 THEN Invoke([@ EXCEPT !.kind = "connect"], "r_started", "c_assign")
                 ELSE Return(@)]
    /\ UNCHANGED <<_client, facade, loops, clients>>
    /\ UNCHANGED <<vars, cvars, dvars, bvars>>

\* connect: `self._async_client = ` the client _run_coro returned
sync_connect_assign(t) ==
    /\ th[t].pc = "c_assign"
    /\ facade' = [facade EXCEPT ![th[t].self]._async_client = th[t].res]
    /\ th' = [th EXCEPT ![t] = Return(@)]
    /\ UNCHANGED <<_client, loops, clients>>
    /\ UNCHANGED <<vars, cvars, dvars, bvars>>

\* threading.Lock: the lock can be taken
LockFree_Always(holder) == TRUE
LockFree(holder) == holder = 0

\* _start_loop: `with self._lock:` is entered
_start_loop_lock(t) ==
    /\ th[t].pc = "s_lock"
    /\ LockFree(facade[th[t].self]._lock)
    /\ facade' = [facade EXCEPT ![th[t].self]._lock = t]
    /\ th' = [th EXCEPT ![t].pc = "s_check"]
    /\ UNCHANGED <<_client, loops, clients>>
    /\ UNCHANGED <<vars, cvars, dvars, bvars>>

\* _start_loop: `if self._started: return`, which leaves the with block
_start_loop_check(t) ==
    /\ th[t].pc = "s_check"
    /\ IF facade[th[t].self]._started
       THEN /\ facade' = [facade EXCEPT ![th[t].self]._lock = 0]
            /\ th' = [th EXCEPT ![t] = Return(@)]
       ELSE /\ facade' = facade
            /\ th' = [th EXCEPT ![t].pc = "s_loop"]
    /\ UNCHANGED <<_client, loops, clients>>
    /\ UNCHANGED <<vars, cvars, dvars, bvars>>

\* _start_loop: `self._loop = asyncio.new_event_loop()`
_start_loop_loop(t) ==
    /\ th[t].pc = "s_loop"
    /\ Len(loops) <= MaxFacades
    /\ loops' = Append(loops, [owner |-> th[t].self, st |-> "new", q |-> << >>])
    /\ facade' = [facade EXCEPT ![th[t].self]._loop = Len(loops) + 1]
    /\ th' = [th EXCEPT ![t].pc = "s_thread"]
    /\ UNCHANGED <<_client, clients>>
    /\ UNCHANGED <<vars, cvars, dvars, bvars>>

\* _start_loop: `self._thread = threading.Thread(target=self._run_loop)` and
\* `self._thread.start()`; the thread carries the number of the loop it is
\* made for
_start_loop_thread(t) ==
    /\ th[t].pc = "s_thread"
    /\ LET l == facade[th[t].self]._loop
       IN /\ loops' = [loops EXCEPT ![l].st = "starting"]
          /\ facade' = [facade EXCEPT ![th[t].self]._thread = l]
    /\ th' = [th EXCEPT ![t].pc = "s_started"]
    /\ UNCHANGED <<_client, clients>>
    /\ UNCHANGED <<vars, cvars, dvars, bvars>>

\* _start_loop: `self._started = True`, and the with block is left
_start_loop_started(t) ==
    /\ th[t].pc = "s_started"
    /\ facade' = [facade EXCEPT ![th[t].self]._started = TRUE, ![th[t].self]._lock = 0]
    /\ th' = [th EXCEPT ![t] = Return(@)]
    /\ UNCHANGED <<_client, loops, clients>>
    /\ UNCHANGED <<vars, cvars, dvars, bvars>>

\* _run_loop on the background thread: set_event_loop and run_forever begin
_run_loop(l) ==
    /\ l \in 1..Len(loops)
    /\ loops[l].st = "starting"
    /\ loops' = [loops EXCEPT ![l].st = "running"]
    /\ UNCHANGED <<_client, facade, clients, th>>
    /\ UNCHANGED <<vars, cvars, dvars, bvars>>

\* _run_coro: `if not self._started: self._start_loop()`
_run_coro_started(t) ==
    /\ th[t].pc = "r_started"
    /\ th' = [th EXCEPT ![t] =
                 IF ~facade[@.self]._started THEN Invoke(@, "s_lock", "r_submit")
                 ELSE [@ EXCEPT !.pc = "r_submit"]]
    /\ UNCHANGED <<_client, facade, loops, clients>>
    /\ UNCHANGED <<vars, cvars, dvars, bvars>>

\* _run_coro: `if self._loop is None: raise RuntimeError`, else
\* run_coroutine_threadsafe(coro, self._loop); the RuntimeError leaves
\* every method on the stack, except that _cleanup swallows it
_run_coro_submit(t) ==
    /\ th[t].pc = "r_submit"
    /\ LET l == facade[th[t].self]._loop
       IN IF l = 0
          THEN /\ loops' = loops
               /\ th' = [th EXCEPT ![t] =
                            IF @.op = "_cleanup"
                            THEN [@ EXCEPT !.pc = "k_stop", !.stack = << >>]
                            ELSE Idle(@.ops)]
          ELSE /\ loops' = [loops EXCEPT ![l].q =
                               Append(@, [kind |-> th[t].kind, t |-> t, m |-> th[t].m])]
               /\ th' = [th EXCEPT ![t].pc = "r_wait"]
    /\ UNCHANGED <<_client, facade, clients>>
    /\ UNCHANGED <<vars, cvars, dvars, bvars>>

\* _run_coro: future.result() returns what the coroutine returned
_run_coro_result(t) ==
    /\ th[t].pc = "r_wait"
    /\ th[t].done
    /\ th' = [th EXCEPT ![t] = Return([@ EXCEPT !.done = FALSE])]
    /\ UNCHANGED <<_client, facade, loops, clients>>
    /\ UNCHANGED <<vars, cvars, dvars, bvars>>

\* the running loop l takes the next callback of its queue:
\* _create_and_connect (a new MsfClient, connected), MsfClient.disconnect of
\* client m, or loop.stop, after which run_forever returns and the thread ends
loop_run(l) ==
    /\ l \in 1..Len(loops)
    /\ loops[l].st = "running"
    /\ loops[l].q # << >>
    /\ LET job == Head(loops[l].q)
       IN CASE job.kind = "connect" ->
                 /\ Len(clients) < MaxClients
                 /\ clients' = Append(clients, [connected |-> TRUE, loop |-> l])
                 /\ th' = [th EXCEPT ![job.t].res = Len(clients) + 1, ![job.t].done = TRUE]
                 /\ loops' = [loops EXCEPT ![l].q = Tail(@)]
            [] job.kind = "disconnect" ->
                 /\ clients' = [clients EXCEPT ![job.m].connected = FALSE]
                 /\ th' = [th EXCEPT ![job.t].res = 0, ![job.t].done = TRUE]
                 /\ loops' = [loops EXCEPT ![l].q = Tail(@)]
            [] OTHER ->
                 /\ loops' = [loops EXCEPT ![l].q = Tail(@), ![l].st = "stopped"]
                 /\ UNCHANGED <<clients, th>>
    /\ UNCHANGED <<_client, facade>>
    /\ UNCHANGED <<vars, cvars, dvars, bvars>>

\* SyncMsfClient.disconnect is called on facade f
sync_disconnect(t, f) ==
    /\ MayCall(t)
    /\ f \in Made
    /\ th' = [th EXCEPT ![t] = [Idle(@.ops + 1) EXCEPT
                  !.op = "disconnect", !.self = f, !.pc = "d_check"]]
    /\ UNCHANGED <<_client, facade, loops, clients>>
    /\ UNCHANGED <<vars, cvars, dvars, bvars>>

\* disconnect: `if self._async_client:` and
\* `self._run_coro(self._async_client.disconnect())`
sync_disconnect_check(t) ==
    /\ th[t].pc = "d_check"
    /\ th' = [th EXCEPT ![t] =
                 IF facade[@.self]._async_client # 0
                 THEN Invoke([@ EXCEPT !.kind = "disconnect",
                                       !.m = facade[th[t].self]._async_client],
                             "r_started", "d_clear")
                 ELSE Return(@)]
    /\ UNCHANGED <<_client, facade, loops, clients>>
    /\ UNCHANGED <<vars, cvars, dvars, bvars>>

\* disconnect: `self._async_client = None`, and disconnect returns
sync_disconnect_clear(t) ==
    /\ th[t].pc = "d_clear"
    /\ facade' = [facade EXCEPT ![th[t].self]._async_client = 0]
    /\ th' = [th EXCEPT ![t] = Return(@)]
    /\ UNCHANGED <<_client, loops, clients>>
    /\ UNCHANGED <<vars, cvars, dvars, bvars>>

\* SyncMsfClient._cleanup runs for facade f:
\* `if self._async_client: try: self.disconnect()`
_cleanup(t, f) ==
    /\ MayCall(t)
    /\ f \in Made
    /\ th' = [th EXCEPT ![t] =
                 IF facade[f]._async_client # 0
                 THEN Invoke([Idle(@.ops + 1) EXCEPT !.op = "_cleanup", !.self = f],
                             "d_check", "k_stop")
                 ELSE [Idle(@.ops + 1) EXCEPT !.op = "_cleanup", !.self = f, !.pc = "k_stop"]]
    /\ UNCHANGED <<_client, facade, loops, clients>>
    /\ UNCHANGED <<vars, cvars, dvars, bvars>>

\* _cleanup: `if self._loop and self._loop.is_running():
\* self._loop.call_soon_threadsafe(self._loop.stop)`
_cleanup_stop(t) ==
    /\ th[t].pc = "k_stop"
    /\ LET l == facade[th[t].self]._loop
       IN loops' = IF l # 0 /\ loops[l].st = "running"
                   THEN [loops EXCEPT ![l].q = Append(@, [kind |-> "stop", t |-> 0, m |-> 0])]
                   ELSE loops
    /\ th' = [th EXCEPT ![t].pc = "k_join"]
    /\ UNCHANGED <<_client, facade, clients>>
    /\ UNCHANGED <<vars, cvars, dvars, bvars>>

\* _cleanup: `self._thread.join(timeout=2.0)` returns, the thread having
\* ended or the two seconds having passed
_cleanup_join(t) ==
    /\ th[t].pc = "k_join"
    /\ th' = [th EXCEPT ![t] = Return(@)]
    /\ UNCHANGED <<_client, facade, loops, clients>>
    /\ UNCHANGED <<vars, cvars, dvars, bvars>>

(* ----------------------- the bridge, bridge/core.py --------------------- *)

\* a thread outside _run_coro, holding what its last operation gave it,
\* and a thread inside future.result() for the coroutine of invocation k
Resting(got) == [pc |-> "idle", k |-> 0, got |-> got]
Waiting(k) == [pc |-> "waiting", k |-> k, got |-> Null]

\* nothing of the bridge has been called: _client is None
BridgeInit ==
    /\ core_client = FALSE
    /\ reader_loop = "none"
    /\ pump = [t \in Threads |-> Resting(Null)]

\* a task that is still on the loop of asyncio.run when the main coroutine
\* returns: the runner cancels every remaining task and closes the loop
RunEnds(task) == IF task = "live" THEN "cancelled" ELSE task

\* what _get_client / _get_client_async do to the client they create:
\* MsfClient() and connect() as in connect(req, resp) above, on the loop
\* that runs it; loop is "closed" for asyncio.run, "running" for the
\* application's own loop
Connects(req, resp, loop) ==
    /\ core_client' = TRUE
    /\ request_buffer' = req
    /\ response_buffer' = (req /\ resp)
    /\ IF req /\ resp
       THEN /\ _shutdown' = ShutdownAfterConnect
            /\ _response_reader_task' = IF loop = "closed" THEN RunEnds("live") ELSE "live"
            /\ reader_loop' = loop
       ELSE UNCHANGED <<_shutdown, _response_reader_task, reader_loop>>
    /\ UNCHANGED <<next_call_id, _pending_calls, orphans, fut, call, dis, req_ring, resp_ring,
                   work, hist>>
    /\ UNCHANGED <<vars, fvars, dvars, pump>>

\* bridge.initialize() with no loop running: _get_client makes the client
\* and connects it with asyncio.run(_client.connect())
initialize(req, resp) ==
    /\ ~core_client
    /\ Connects(req, resp, "closed")

\* await bridge.initialize_async() on the application's loop
initialize_async(req, resp) ==
    /\ ~core_client
    /\ Connects(req, resp, "running")

\* bridge.get_version() or Framework.version() with no loop running:
\* _get_client returns the client and _run_async runs framework_version()
\* on a loop of its own, up to the suspension of _call; the calls of a
\* thread follow one another
get_version(k) ==
    /\ core_client
    /\ reader_loop # "running"
    /\ k > 1 => call[k - 1].pc = "done"
    /\ call_begin(k, TRUE, FALSE)

\* await client.framework_version() on the application's loop
framework_version(k) ==
    /\ core_client
    /\ reader_loop = "running"
    /\ call_begin(k, TRUE, FALSE)

BridgeNext ==
    \/ \E req \in BOOLEAN, resp \in BOOLEAN : initialize(req, resp)
    \/ \E req \in BOOLEAN, resp \in BOOLEAN : initialize_async(req, resp)
    \/ \E k \in Callers : get_version(k)
    \/ \E k \in Callers : framework_version(k)
    \/ \E k \in Callers : call_return(k)
    \/ \E k \in Callers : call_timeout(k)
    \/ daemon_take
    \/ \E q \in work, kind \in ReplyKinds : daemon_reply(q, kind)
    \/ reader_read("task")

(* ------------- calls through the facade, ipc/sync.py 72-144 ------------- *)

\* the invocations of _call some thread has submitted
Submitted == {pump[t].k : t \in Threads} \ {0}

\* SyncMsfClient.connect with _async_client None: _create_and_connect runs
\* on the loop, MsfClient(...) and then connect() with no await between
\* them, and its result becomes _async_client; when connect() raises the
\* new object is dropped.  The frames in the rings are the daemon's and stay
_create_and_connect(req, resp) ==
    /\ ~request_buffer /\ ~response_buffer
    /\ dis.pc = "idle"
    /\ \A t \in Threads : pump[t].pc = "idle"
    /\ request_buffer' = (req /\ resp)
    /\ response_buffer' = (req /\ resp)
    /\ next_call_id' = 1
    /\ _pending_calls' = {}
    /\ fut' = [i \in Ids |-> NoFuture]
    /\ _shutdown' = ShutdownAfterConnect
    /\ _response_reader_task' = IF req /\ resp THEN "live" ELSE "none"
    /\ orphans' = 0
    /\ hist' = NewHistory
    /\ UNCHANGED <<call, dis, req_ring, resp_ring, work>>
    /\ UNCHANGED <<vars, fvars, dvars, bvars>>

\* a thread calls an operation of the facade: _ensure_connected passes and
\* _run_coro hands the coroutine of _call to the loop with
\* run_coroutine_threadsafe, then blocks in future.result()
_run_coro(t, k) ==
    /\ pump[t].pc = "idle"
    /\ request_buffer /\ response_buffer
    /\ call[k].pc = "new"
    /\ k \notin Submitted
    /\ \A j \in 1..(k - 1) : call[j].pc # "new" \/ j \in Submitted
    /\ pump' = [pump EXCEPT ![t] = Waiting(k)]
    /\ UNCHANGED <<core_client, reader_loop>>
    /\ UNCHANGED <<vars, cvars, fvars, dvars>>

\* the loop starts the task of a submitted coroutine: _call up to its
\* first suspension, on the loop's thread
_call(k) ==
    /\ k \in Submitted
    /\ call_begin(k, TRUE, FALSE)

\* future.result() returns in the thread what its coroutine returned or raised
future_result(t) ==
    /\ pump[t].pc = "waiting"
    /\ call[pump[t].k].pc = "done"
    /\ pump' = [pump EXCEPT ![t] = Resting([outcome |-> call[pump[t].k].outcome,
                                             val |-> call[pump[t].k].val])]
    /\ UNCHANGED <<core_client, reader_loop>>
    /\ UNCHANGED <<vars, cvars, fvars, dvars>>

\* SyncMsfClient.disconnect with _async_client set: MsfClient.disconnect
\* runs on the loop
sync_client_disconnect ==
    /\ request_buffer /\ response_buffer
    /\ disconnect_begin

PumpNext ==
    \/ \E req \in BOOLEAN, resp \in BOOLEAN : _create_and_connect(req, resp)
    \/ \E t \in Threads, k \in Callers : _run_coro(t, k)
    \/ \E k \in Callers : _call(k)
    \/ \E k \in Callers : call_return(k)
    \/ \E k \in Callers : call_timeout(k)
    \/ \E t \in Threads : future_result(t)
    \/ daemon_take
    \/ \E q \in work, kind \in ReplyKinds : daemon_reply(q, kind)
    \/ reader_read("task")

ReconnectNext ==
    \/ \E req \in BOOLEAN, resp \in BOOLEAN : _create_and_connect(req, resp)
    \/ \E t \in Threads, k \in Callers : _run_coro(t, k)
    \/ \E k \in Callers : _call(k)
    \/ \E k \in Callers : call_return(k)
    \/ \E k \in Callers : call_timeout(k)
    \/ \E t \in Threads : future_result(t)
    \/ daemon_take
    \/ \E q \in work, kind \in ReplyKinds : daemon_reply(q, kind)
    \/ reader_read("task")
    \/ reader_exit("task")
    \/ sync_client_disconnect
    \/ disconnect_resume
    \/ disconnect_grace

\* one shared ring as created, and a client as constructed
AllInit == Init /\ ClientInit /\ FacadeInit /\ DecodeInit /\ BridgeInit

(* --------------------------- specification ----------------------------- *)

Next ==
    \/ \E e \in Endpoints : RingBuffer_init(e)
    \/ \E e \in Endpoints : close(e)
    \/ \E d \in Payloads : try_write_begin(d)
    \/ try_write_check
    \/ try_write_header
    \/ try_write_data
    \/ try_write_publish
    \/ try_read_begin
    \/ try_read_check
    \/ try_read_header
    \/ try_read_data
    \/ try_read_publish

Spec == AllInit /\ [][Next]_allvars

\* every step of the client, the reader tasks, the callers and the daemon
ClientNext ==
    \/ \E req \in BOOLEAN, resp \in BOOLEAN : connect(req, resp)
    \/ disconnect_begin
    \/ disconnect_resume
    \/ disconnect_grace
    \/ \E t \in {"task", "orphan"} : reader_exit(t)
    \/ \E t \in {"task", "orphan"} : reader_read(t)
    \/ daemon_take
    \/ \E q \in work, kind \in ReplyKinds : daemon_reply(q, kind)
    \/ \E k \in Callers, serializable \in BOOLEAN, fault \in BOOLEAN :
           call_begin(k, serializable, fault)
    \/ \E k \in Callers : call_return(k)
    \/ \E k \in Callers : call_timeout(k)
    \/ \E k \in Callers : call_cancelled(k)

\* the client on its event loop, with the rings left as created
ClientSpec == AllInit /\ [][ClientNext]_allvars

\* the same, on an event loop that keeps running: a disconnect() suspended
\* in wait_for is resumed, by the end of the reader task or by the timer
BridgeSpec == AllInit /\ [][BridgeNext]_allvars

\* threads calling through one connected facade
PumpSpec == AllInit /\ [][PumpNext]_allvars

\* the same with the facade disconnected and connected again
ReconnectSpec == AllInit /\ [][ReconnectNext]_allvars

ClientFairSpec == ClientSpec /\ WF_allvars(disconnect_resume \/ disconnect_grace)

FacadeNext ==
    \/ \E t \in Threads : get_client(t)
    \/ \E t \in Threads : get_client_new(t)
    \/ \E t \in Threads : get_client_connect(t)
    \/ \E t \in Threads : get_client_return(t)
    \/ \E t \in Threads, f \in Facades : sync_connect(t, f)
    \/ \E t \in Threads : sync_connect_started(t)
    \/ \E t \in Threads : sync_connect_client(t)
    \/ \E t \in Threads : sync_connect_assign(t)
    \/ \E t \in Threads : _start_loop_lock(t)
    \/ \E t \in Threads : _start_loop_check(t)
    \/ \E t \in Threads : _start_loop_loop(t)
    \/ \E t \in Threads : _start_loop_thread(t)
    \/ \E t \in Threads : _start_loop_started(t)
    \/ \E l \in 1..(MaxFacades + 1) : _run_loop(l)
    \/ \E t \in Threads : _run_coro_started(t)
    \/ \E t \in Threads : _run_coro_submit(t)
    \/ \E t \in Threads : _run_coro_result(t)
    \/ \E l \in 1..(MaxFacades + 1) : loop_run(l)
    \/ \E t \in Threads, f \in Facades : sync_disconnect(t, f)
    \/ \E t \in Threads : sync_disconnect_check(t)
    \/ \E t \in Threads : sync_disconnect_clear(t)
    \/ \E t \in Threads, f \in Facades : _cleanup(t, f)
    \/ \E t \in Threads : _cleanup_stop(t)
    \/ \E t \in Threads : _cleanup_join(t)

FacadeSpec == AllInit /\ [][FacadeNext]_allvars

DecodeNext ==
    \/ \E c \in {0} \cup Ids, rshape \in ResponseShapes, eshape \in ErrorShapes :
           receive(c, rshape, eshape)
    \/ decode

DecodeSpec == AllInit /\ [][DecodeNext]_allvars

(* ------------------------------ typing --------------------------------- *)

TypeOK ==
    /\ mem \in [0..(total_size - 1) -> Byte]
    /\ attached \in [Endpoints -> BOOLEAN]
    /\ pc_w \in {"idle", "check", "header", "data", "publish"}
    /\ pc_r \in {"idle", "check", "header", "data", "publish"}
    /\ wres \in {"none", "running", "ok", "BufferFull", "ValueError"}
    /\ rres \in {"none", "running", "ok", "BufferEmpty", "struct.error"}

(* ------------------------- auxiliary predicates ------------------------ *)

\* the step belongs to the writer's try_write / to the reader's try_read
WriterStep == pc_w' # pc_w
ReaderStep == pc_r' # pc_r

\* the writer's / reader's last call has returned or raised
WriteReturned == pc_w = "idle" /\ wres \in {"ok", "BufferFull", "ValueError"}
ReadReturned == pc_r = "idle" /\ rres \in {"ok", "BufferEmpty", "struct.error"}

(* ------------------------------- claims -------------------------------- *)

\* C1: in every reachable state of every interleaving of try_write and
\* try_read, 0 <= write_pos - read_pos <= capacity.
C1_Occupancy ==
    /\ 0 <= write_pos - read_pos
    /\ write_pos - read_pos <= Capacity

\* C1 witness: the ring is full again after the reader has freed space.
C1_Witness == read_pos > 0 /\ write_pos - read_pos = Capacity

\* C2: FIFO, byte-exact delivery: every successful try_read returns exactly
\* the oldest payload that was accepted and not yet returned.
C2_Fifo == rres = "ok" => r.data = rexpect

\* C2 witness: a non-empty payload is returned from a frame placed after the
\* physical offset has wrapped, while a later frame is still unread.
C2_Witness ==
    /\ rres = "ok" /\ pc_r = "idle"
    /\ r.read_pos >= Capacity
    /\ Len(r.data) > 0
    /\ Len(queue) > 0

\* C3: a try_write whose frame fits the free space (4 + len <= capacity -
\* (write_pos - read_pos)) succeeds, whatever write_pos mod capacity is.
C3_OnlyOccupancyRefuses ==
    (WriteReturned /\ w.msg_size <= Capacity - (w.write_pos - w.read_pos))
        => wres = "ok"

\* C4: writing a payload of length capacity - 4 into an empty ring succeeds
\* in every reachable empty state.
C4_MaxPayloadIntoEmpty ==
    (WriteReturned /\ Len(w.data) = Capacity - 4 /\ w.write_pos = w.read_pos)
        => wres = "ok"

\* C5: a try_write whose frame does not fit contiguously between
\* write_pos mod capacity and the end of the data area ends in BufferFull
\* and none of its steps changes write_pos, read_pos or the data area.
C5_Step ==
    (WriterStep /\ (w'.write_pos % Capacity) + w'.msg_size > Capacity)
        => /\ mem' = mem
           /\ pc_w' = "idle" => wres' = "BufferFull"

C5_StraddleRefusedCleanly == [][C5_Step]_vars

\* C6: no published frame straddles the end of the data area, so try_read
\* never asks for bytes past offset 64 + capacity and never returns a
\* payload shorter than the length it read.
C6_NoStraddle ==
    /\ \A i \in 1..Len(queue) :
          (queue[i].start % Capacity) + HEADER_SIZE + Len(queue[i].data) <= Capacity
    /\ pc_r = "header" => (r.read_pos % Capacity) + DATA_OFFSET + HEADER_SIZE <= total_size
    /\ pc_r = "data" => r.pos + r.msg_len <= total_size
    /\ rres # "struct.error"
    /\ rres = "ok" => Len(r.data) = r.msg_len

\* C6 witness: a non-empty frame that starts off the origin and ends exactly
\* at the end of the data area has been read in full.
C6_Witness ==
    /\ rres = "ok" /\ pc_r = "idle"
    /\ r.read_pos % Capacity # 0
    /\ r.msg_len > 0
    /\ (r.read_pos % Capacity) + HEADER_SIZE + r.msg_len = Capacity

\* C7: no step of a try_write up to and including its BufferFull refusal
\* changes the mapping, and a payload longer than capacity - 4 is always
\* refused with BufferFull.
C7_BufferFullNoMutation ==
    /\ []((WriteReturned /\ Len(w.data) > Capacity - HEADER_SIZE) => wres = "BufferFull")
    /\ [][(WriterStep /\ (wres' = "BufferFull" \/ pc_w' = "check")) => mem' = mem]_vars

\* C7 witness: capacity - 3 bytes were refused on an empty ring that has
\* already carried traffic.
C7_Witness ==
    /\ wres = "BufferFull" /\ pc_w = "idle"
    /\ Len(w.data) = Capacity - 3
    /\ w.write_pos = w.read_pos /\ w.write_pos > 0

\* C8: try_read on an empty ring raises BufferEmpty and leaves write_pos and
\* read_pos unchanged.
C8_EmptyRead ==
    /\ []((ReadReturned /\ r.write_pos = r.read_pos) => rres = "BufferEmpty")
    /\ [](rres = "BufferEmpty" => read_pos = r.read_pos)
    /\ [][(ReaderStep /\ pc_r \in {"idle", "check"}) => mem' = mem]_vars

\* C8 witness: BufferEmpty on a ring emptied after traffic.
C8_Witness ==
    /\ rres = "BufferEmpty" /\ pc_r = "idle"
    /\ r.read_pos > 0 /\ write_pos = read_pos

\* C9: no step of try_write, try_read, open or close decreases a counter; a
\* successful try_write / try_read advances its counter by exactly 4 + L and
\* nothing else moves it.
C9_Step ==
    LET wp0 == WritePosOf(mem)
        wp1 == WritePosOf(mem')
        rp0 == ReadPosOf(mem)
        rp1 == ReadPosOf(mem')
    IN /\ mem' # mem =>
             /\ wp1 >= wp0
             /\ rp1 >= rp0
             /\ attached' = attached
             /\ wp1 # wp0 => (pc_w = "publish" /\ wres' = "ok")
             /\ rp1 # rp0 => (pc_r = "publish" /\ rres' = "ok")
       /\ (pc_w = "publish" /\ WriterStep) => wp1 = wp0 + HEADER_SIZE + Len(w.data)
       /\ (pc_r = "publish" /\ ReaderStep) => rp1 = rp0 + HEADER_SIZE + Len(r.data)

C9_Monotonic == [][C9_Step]_vars

\* C9 witness: both counters have passed the capacity and both endpoints
\* have closed their mappings.
C9_Witness ==
    /\ ~attached["writer"] /\ ~attached["reader"]
    /\ read_pos > Capacity /\ write_pos > read_pos

\* C10: role separation: no step of try_write changes read_pos, no step of
\* try_read changes write_pos or a byte of the data area.
C10_Step ==
    /\ WriterStep => ReadPosOf(mem') = ReadPosOf(mem)
    /\ ReaderStep => (WritePosOf(mem') = WritePosOf(mem) /\ DataArea(mem') = DataArea(mem))

C10_RoleSeparation == [][C10_Step]_vars

\* C10 witness: both endpoints are about to store their own counter.
C10_Witness == pc_w = "publish" /\ pc_r = "publish" /\ read_pos > 0

\* C11: utilization() strictly increases across the publishing step of every
\* successful try_write (zero-length payloads included), strictly decreases
\* across that of every successful try_read, is changed by no other step,
\* and is zero whenever every published frame has been read.
C11_Step ==
    LET u0 == utilization(mem)
        u1 == utilization(mem')
    IN /\ (WriterStep /\ wres' = "ok") => FracLess(u0, u1)
       /\ (ReaderStep /\ rres' = "ok") => FracLess(u1, u0)
       /\ (WriterStep /\ wres' # "ok") => u1 = u0
       /\ (ReaderStep /\ rres' # "ok") => u1 = u0
       /\ (~WriterStep /\ ~ReaderStep) => u1 = u0

C11_Utilization ==
    /\ [][C11_Step]_vars
    /\ [](queue = << >> => FracZero(utilization(mem)))

\* C11 witness: an empty payload has been published and read on a ring that
\* is empty again after its offset has left the origin.
C11_Witness ==
    /\ wres = "ok" /\ pc_w = "idle" /\ Len(w.data) = 0
    /\ rres = "ok" /\ pc_r = "idle" /\ r.msg_len = 0
    /\ queue = << >> /\ write_pos > 0

(* ----------------------------- client claims --------------------------- *)

\* invocation k of _call starts in this step
Starts(k) == call[k].pc = "new" /\ call'[k].pc # "new"

\* invocation k of _call returns or raises in this step
Returns(k) == call[k].pc # "done" /\ call'[k].pc = "done"

\* C12: call ids are unique and strictly increasing over the lifetime of a
\* client object: next_call_id starts at 1, every call that passes the
\* connected check takes the current value and adds one to it, also when the
\* call then fails; no other step, connect and disconnect included, changes
\* next_call_id, and no two calls carry the same id.
C12_Step ==
    /\ \A k \in Callers :
          (Starts(k) /\ Connected) =>
              /\ call'[k].id = next_call_id
              /\ next_call_id' = next_call_id + 1
    /\ (~\E k \in Callers : Starts(k) /\ Connected) => next_call_id' = next_call_id
C12_CallIds ==
    /\ [][C12_Step]_allvars
    /\ [](/\ next_call_id = Len(hist.issued) + 1
          /\ \A i \in 1..Len(hist.issued) : hist.issued[i] = i
          /\ \A k, l \in Callers :
                (k # l /\ call[k].id # 0 /\ call[l].id # 0) => call[k].id # call[l].id)
C12_Witness ==
    /\ hist.issued = <<1, 2>>
    /\ call[1].outcome = "SerializationError"
    /\ call[2].pc = "await"
    /\ dis.outcome = "ok"
    /\ Connected

\* C13: demultiplexing.  With several calls outstanding and replies arriving
\* in any order, a call that returns a result returns the result of the reply
\* that carries its own call id, and a future is only ever completed with
\* the payload of a reply carrying the id it is registered under.
C13_Demux ==
    /\ \A k \in Callers :
          call[k].outcome = "result" => call[k].val = ReplyResult([call_id |-> call[k].id]).response.result
    /\ \A i \in Ids :
          fut[i].st = "result" => fut[i].val = ReplyResult([call_id |-> i]).response.result
C13_Witness ==
    /\ call[1].pc = "await"
    /\ fut[1].st = "pending"
    /\ call[2].outcome = "result"
    /\ call[2].val = ReplyResult([call_id |-> 2]).response.result
    /\ resp_ring # << >>
    /\ Head(resp_ring).call_id = 1
    /\ Head(resp_ring).response # Null

\* C14: a call that has failed with Timeout has no entry in the pending
\* table, from the moment the Timeout is raised and in every later state.
C14_TimeoutRemovesEntry ==
    \A k \in Callers : call[k].outcome = "Timeout" => call[k].id \notin _pending_calls
C14_Witness ==
    /\ call[1].outcome = "Timeout"
    /\ 1 \in hist.dropped
    /\ call[2].pc = "await"
    /\ _pending_calls = {2}

\* the reader consumes the frame at the head of the response ring in this step
ReaderConsumes == resp_ring # << >> /\ resp_ring' = Tail(resp_ring)

\* C15: a reply whose call id has no pending entry is consumed and dropped
\* without raising: the pending table, the futures, the callers and the
\* reader tasks are as before.  After such a drop the reader still delivers:
\* a reply for a pending call completes that call's future, and a call whose
\* future is completed when it wakes returns that outcome.
C15_Step ==
    /\ (/\ ReaderConsumes
        /\ deserialize_response(Head(resp_ring)).ok
        /\ Head(resp_ring).call_id \notin _pending_calls) =>
          /\ _pending_calls' = _pending_calls
          /\ fut' = fut
          /\ call' = call
          /\ _response_reader_task' = _response_reader_task
          /\ orphans' = orphans
          /\ hist'.raised = hist.raised
          /\ hist'.dropped = hist.dropped \cup {Head(resp_ring).call_id}
    /\ (/\ ReaderConsumes
        /\ hist.dropped # {}
        /\ Head(resp_ring).call_id \in _pending_calls
        /\ fut[Head(resp_ring).call_id].st = "pending"
        /\ Head(resp_ring).response # Null) =>
          fut'[Head(resp_ring).call_id] = [st |-> "result", val |-> Head(resp_ring).response.result]
    /\ \A k \in Callers :
          (Returns(k) /\ call[k].pc = "await" /\ fut[call[k].id].st = "result") =>
              /\ call'[k].outcome = "result"
              /\ call'[k].val = fut[call[k].id].val
C15_LateReplyDropped == [][C15_Step]_allvars
C15_Witness ==
    /\ call[1].outcome = "Timeout"
    /\ 1 \in hist.dropped
    /\ call[2].outcome = "result"
    /\ _response_reader_task = "live"

\* disconnect() has returned and the client has not been connected again
Closed == dis.pc = "idle" /\ dis.outcome = "ok" /\ ~Connected

\* C16: after any abnormal exit of a call, cancellation of the caller
\* included, the pending table holds no entry for that call.
C16_NoEntryAfterAbnormalExit ==
    \A k \in Callers :
        (call[k].pc = "done" /\ call[k].outcome # "result" /\ call[k].id # 0) =>
            call[k].id \notin _pending_calls

\* C17: after disconnect() returns, the pending table holds no entry of a
\* call that was outstanding when disconnect() was invoked.
C17_PendingEmptyAfterDisconnect ==
    Closed => \A i \in _pending_calls : i >= hist.since

\* C18: a call that is suspended on its completion when disconnect() runs
\* has completed by the time disconnect() returns.
C18_NoCallSuspendedAfterDisconnect ==
    Closed => \A k \in Callers : call[k].pc = "await" => call[k].id >= hist.since

\* C19: on a client that is not connected, every operation other than
\* connect(), a call as well as disconnect(), fails with NotConnected.
C19_Step ==
    /\ \A k \in Callers : (Starts(k) /\ ~Connected) => call'[k].outcome = "NotConnected"
    /\ (~Connected /\ dis.pc = "idle" /\ dis' # dis) => dis'.outcome = "NotConnected"
C19_NotConnected == [][C19_Step]_allvars

\* C20: on a client that disconnect() has closed, with no reader task left,
\* connect() clears _shutdown, attaches both rings and leaves exactly one
\* reader task running, without touching the call-id sequence; disconnect()
\* leaves no referenced reader running; and on the new connection a reply
\* for a pending call completes that call's future, whose call returns it.
C20_Step ==
    /\ (~Connected /\ Connected' /\ Closed /\ LiveReaders = 0) =>
          /\ ~_shutdown'
          /\ request_buffer' /\ response_buffer'
          /\ _response_reader_task' = "live"
          /\ orphans' = 0
          /\ next_call_id' = next_call_id
    /\ (/\ ReaderConsumes
        /\ Connected /\ dis.outcome = "ok"
        /\ Head(resp_ring).call_id >= hist.since
        /\ Head(resp_ring).call_id \in _pending_calls
        /\ fut[Head(resp_ring).call_id].st = "pending"
        /\ Head(resp_ring).response # Null) =>
          fut'[Head(resp_ring).call_id] = [st |-> "result", val |-> Head(resp_ring).response.result]
    /\ \A k \in Callers :
          (/\ Returns(k) /\ call[k].pc = "await"
           /\ Connected /\ dis.outcome = "ok" /\ call[k].id >= hist.since
           /\ fut[call[k].id].st = "result") =>
              call'[k] = Returned(call[k].id, "result", ReplyResult([call_id |-> call[k].id]).response.result)
C20_Reconnect ==
    /\ [][C20_Step]_allvars
    /\ [](Closed => _response_reader_task # "live")
C20_Witness ==
    /\ dis.outcome = "ok"
    /\ hist.since = 2
    /\ call[1].outcome = "result"
    /\ call[2].outcome = "result"
    /\ call[2].id = 2
    /\ Connected
    /\ ~_shutdown
    /\ LiveReaders = 1

\* C21: a client has at most one live reader task in every reachable state,
\* also after connect() on a client that is already connected, and a
\* disconnect() that has returned leaves no reader task running.
C21_SingleReader ==
    /\ LiveReaders <= 1
    /\ Closed => LiveReaders = 0

\* the tasks that consume the response ring: every reader task that is
\* alive while the ring is attached runs try_read on it
Consumers == IF response_buffer /\ ~_shutdown THEN LiveReaders ELSE 0

\* C22: in no reachable state do two endpoints on the client side consume
\* the same response ring.
C22_SingleConsumer == Consumers <= 1

\* the reply at the head of the response ring, decoded
HeadReply == deserialize_response(Head(resp_ring))

\* C23: a reply carrying error {code, message} for a pending call fails that
\* call with RemoteError(code, message), code and message as in the reply,
\* and removes its pending entry; the call neither times out nor returns a
\* result.
C23_Step ==
    /\ (/\ ReaderConsumes
        /\ HeadReply.ok /\ HeadReply.error # Null
        /\ HeadReply.call_id \in _pending_calls
        /\ fut[HeadReply.call_id].st = "pending") =>
          /\ fut'[HeadReply.call_id] =
                [st |-> "exception",
                 val |-> [code |-> Head(resp_ring).error.code,
                          message |-> Head(resp_ring).error.message]]
          /\ HeadReply.call_id \notin _pending_calls'
    /\ \A k \in Callers :
          (Returns(k) /\ call[k].pc = "await" /\ fut[call[k].id].st = "exception") =>
              call'[k] = Returned(call[k].id, "RemoteError", fut[call[k].id].val)
C23_RemoteError ==
    /\ [][C23_Step]_allvars
    /\ [](\A k \in Callers :
             call[k].outcome = "RemoteError" =>
                 /\ call[k].val = [code |-> ReplyError([call_id |-> call[k].id]).error.code,
                                   message |-> ReplyError([call_id |-> call[k].id]).error.message]
                 /\ call[k].id \notin _pending_calls)
C23_Witness ==
    /\ call[1].outcome = "RemoteError"
    /\ call[1].val.message = <<"message", 1>>
    /\ call[2].pc = "await"
    /\ _pending_calls = {2}

\* C24: a frame of the response ring that does not decode does not end the
\* reader: the frame is consumed, the error is caught inside the loop, no
\* call, future or pending entry is touched and every reader task stays
\* alive; replies that arrive afterwards still complete their pending calls.
C24_Step ==
    /\ (ReaderConsumes /\ ~HeadReply.ok) =>
          /\ _pending_calls' = _pending_calls
          /\ fut' = fut
          /\ call' = call
          /\ _response_reader_task' = _response_reader_task
          /\ orphans' = orphans
          /\ hist'.raised = next_call_id
    /\ (/\ ReaderConsumes
        /\ hist.raised > 0
        /\ HeadReply.ok /\ HeadReply.error = Null
        /\ HeadReply.call_id \in _pending_calls
        /\ fut[HeadReply.call_id].st = "pending") =>
          /\ fut'[HeadReply.call_id] = [st |-> "result", val |-> HeadReply.result]
          /\ HeadReply.call_id \notin _pending_calls'
C24_MalformedFrame == [][C24_Step]_allvars
C24_Witness ==
    /\ hist.raised = 2
    /\ call[1].outcome = "Timeout"
    /\ call[2].outcome = "result"
    /\ call[2].id = 2
    /\ _response_reader_task = "live"

\* the call ids of the frames of a sequence of requests
FrameIds(ring) == [i \in 1..Len(ring) |-> ring[i].call_id]

\* a sequence of numbers is strictly increasing
Increasing(ids) == \A i, j \in 1..Len(ids) : i < j => ids[i] < ids[j]

\* C25: the requests of one client enter the request ring in submission
\* order: every frame is written at the end of the ring with a call id above
\* every id written before, so the ids of the frames in the ring are strictly
\* increasing in ring order, whatever the interleaving of the calls.
C25_Step ==
    Len(req_ring') > Len(req_ring) =>
        /\ \E k \in Callers :
              /\ Starts(k)
              /\ req_ring' = Append(req_ring, serialize_call(call'[k].id, "method", << >>))
              /\ hist'.written = Append(hist.written, call'[k].id)
              /\ \A i \in 1..Len(hist.written) : hist.written[i] < call'[k].id
        /\ \A j \in Callers : call[j].pc = "done" => call[j].id < next_call_id'
C26_Step ==
    \A k \in Callers :
        /\ (Starts(k) /\ Connected /\ Len(req_ring) >= RingFrames) =>
              /\ call'[k].pc = "done"
              /\ call'[k].outcome \in {"BufferFullError", "SerializationError"}
        /\ (Starts(k) /\ call'[k].outcome = "BufferFullError") =>
              /\ Len(req_ring) >= RingFrames
              /\ req_ring' = req_ring
              /\ hist'.written = hist.written
              /\ call'[k].id \notin _pending_calls'
              /\ fut'[call'[k].id] = NoFuture
C26_BackPressure ==
    /\ [][C26_Step]_allvars
    /\ [](\A k \in Callers :
             call[k].outcome = "BufferFullError" =>
                 call[k].pc = "done" /\ call[k].id \notin _pending_calls)
C26_Witness ==
    /\ call[2].outcome = "BufferFullError"
    /\ call[2].id = 2
    /\ req_ring = <<serialize_call(1, "method", << >>)>>
    /\ _pending_calls = {1}

\* the exceptions of _call that C27 is about
LocalFailures == {"SerializationError", "Timeout", "BufferFullError", "ValueError"}

\* C27: a serialization failure, a timeout or a write failure of one call
\* touches only that call: the records, pending entries and futures of the
\* other calls, the reader tasks, the buffers and the rings are as before,
\* and next_call_id moves only by the failing call's own id.
C27_Step ==
    \A k \in Callers :
        (Returns(k) /\ call'[k].outcome \in LocalFailures) =>
            /\ \A j \in Callers \ {k} : call'[j] = call[j]
            /\ _pending_calls' \ {call'[k].id} = _pending_calls \ {call'[k].id}
            /\ \A i \in Ids \ {call'[k].id} : fut'[i] = fut[i]
            /\ next_call_id' = IF Starts(k) THEN next_call_id + 1 ELSE next_call_id
            /\ UNCHANGED <<request_buffer, response_buffer, _response_reader_task, orphans,
                           _shutdown, dis, req_ring, resp_ring, work>>
C27_FailureIsLocal == [][C27_Step]_allvars
C27_Witness ==
    /\ call[2].outcome = "ValueError"
    /\ call[1].pc = "await"
    /\ fut[1].st = "pending"
    /\ _pending_calls = {1}
    /\ _response_reader_task = "live"

(* ----------------------------- facade claims --------------------------- *)

\* the event loops created for facade f
LoopsOf(f) == {l \in 1..Len(loops) : loops[l].owner = f}

\* C28: a facade has one executor: however many threads make their first use
\* of it at once, at most one event loop and one thread are created for it,
\* the thread runs that loop, and every coroutine a thread submits through
\* the facade is queued on that loop.
C28_OneExecutor ==
    /\ \A f \in Facades :
          /\ Cardinality(LoopsOf(f)) <= 1
          /\ facade[f]._loop # 0 => LoopsOf(f) = {facade[f]._loop}
          /\ facade[f]._thread # 0 => facade[f]._thread = facade[f]._loop
          /\ facade[f]._started => facade[f]._loop # 0 /\ facade[f]._thread # 0
    /\ \A l \in 1..Len(loops) : \A i \in 1..Len(loops[l].q) :
          loops[l].q[i].t # 0 =>
              /\ th[loops[l].q[i].t].pc = "r_wait"
              /\ facade[th[loops[l].q[i].t].self]._loop = l
    /\ \A t \in Threads :
          (th[t].pc = "r_wait" /\ ~th[t].done) =>
              \E i \in 1..Len(loops[facade[th[t].self]._loop].q) :
                  loops[facade[th[t].self]._loop].q[i].t = t
    /\ \A m \in 1..Len(clients) : \E f \in Facades : clients[m].loop = facade[f]._loop
C28_Witness ==
    /\ th[1].pc = "s_thread"
    /\ th[2].pc = "s_lock"
    /\ th[1].self = th[2].self
    /\ Len(loops) = 1

\* C29: when disconnect() of the facade returns after having run the async
\* disconnect, the facade's event loop has stopped and its thread has ended.
C29_Step ==
    \A t \in Threads :
        (th[t].op = "disconnect" /\ th[t].pc = "d_clear" /\ th'[t].pc = "idle") =>
            /\ facade'[th[t].self]._async_client = 0
            /\ loops'[facade[th[t].self]._loop].st = "stopped"
C29_DisconnectStopsExecutor == [][C29_Step]_allvars

\* the MsfClient objects that are connected
ConnectedClients == {m \in 1..Len(clients) : clients[m].connected}

\* C30: the global client is initialised once: whatever the interleaving of
\* the calls of get_client() and of SyncMsfClient.connect(), one facade and
\* one connected client exist at most, and get_client() hands out the global
\* facade only when that facade holds a connected client.
C30_Step ==
    \A t \in Threads :
        (th[t].pc = "g_return" /\ th'[t].pc = "idle") =>
            /\ _client # 0
            /\ facade[_client]._async_client # 0
            /\ clients[facade[_client]._async_client].connected
C30_InitOnce ==
    /\ [][C30_Step]_allvars
    /\ [](Cardinality(Made) <= 1 /\ Cardinality(ConnectedClients) <= 1)

(* ------------------------ further client claims ------------------------ *)

\* C38: a call rejected because a buffer is missing leaves the client as it
\* was: next_call_id is not advanced, no pending entry and no future is
\* created and nothing is written to the request ring; and every call made
\* while a buffer is missing is rejected in this way.
C38_Step ==
    \A k \in Callers :
        /\ (Starts(k) /\ ~(request_buffer /\ response_buffer)) =>
              /\ call'[k] = Returned(0, "NotConnected", Null)
              /\ UNCHANGED <<next_call_id, _pending_calls, fut, req_ring, resp_ring, work,
                             request_buffer, response_buffer, _response_reader_task,
                             orphans, _shutdown, hist>>
        /\ (Starts(k) /\ call'[k].outcome = "NotConnected") =>
              ~(request_buffer /\ response_buffer)
C38_NotConnectedNoEffect == [][C38_Step]_allvars
C38_Witness ==
    /\ call[1].outcome = "NotConnected"
    /\ call[2].pc = "await"
    /\ call[2].id = 1
    /\ hist.issued = <<1>>
    /\ req_ring = <<serialize_call(1, "method", << >>)>>

\* C39: connect attaches both rings or none: when it fails because a region
\* is absent, no mapping stays attached and no reader task has been created.
C39_Step ==
    (request_buffer' # request_buffer \/ response_buffer' # response_buffer) =>
        request_buffer' = response_buffer'
C39_FailedConnect == [][C39_Step]_allvars

\* the message holds key k with a value other than None
Has(k) == k \in DOMAIN frame /\ frame[k] # Null

\* C35: decoding a reply gives one outcome: a result with no error, or an
\* error {code, message} with no result, and the reader completes the call
\* accordingly; a reply with neither a response nor an error other than
\* None, or without call_id, is a DeserializationError and completes no call.
C35_DecodeOutcome ==
    decoded.done =>
        /\ decoded.d.ok =>
              /\ "call_id" \in DOMAIN frame /\ decoded.d.call_id = frame.call_id
              /\ decoded.d.error # Null => decoded.d.result = Null
              /\ decoded.d.error # Null <=> (~Has("response") /\ Has("error"))
              /\ decoded.d.error = Null <=> Has("response")
              /\ decoded.branch = IF decoded.d.error # Null THEN "set_exception"
                                  ELSE "set_result"
        /\ (~Has("response") /\ ~Has("error")) => ~decoded.d.ok
        /\ "call_id" \notin DOMAIN frame => ~decoded.d.ok
        /\ ~decoded.d.ok => decoded.branch = "error"
C35_Witness ==
    /\ decoded.done
    /\ frame = Message(1, "null", "absent")
    /\ ~decoded.d.ok
    /\ decoded.branch = "error"

\* a future that has been completed or cancelled
Settled(f) == f.st \in {"result", "exception", "cancelled"}

\* the outcomes of a call that has returned or raised
Outcomes ==
    {"result", "RemoteError", "Timeout", "CancelledError", "NotConnected",
     "SerializationError", "BufferFullError", "ValueError"}

\* C36: a call has one outcome and its future is completed at most once: a
\* future that holds a result or an exception or is cancelled is never set
\* again, the reader skips a reply whose future is cancelled, a call that
\* has returned or raised never changes its outcome, and a call that raised
\* Timeout holds no result.
C36_Step ==
    /\ \A i \in Ids : Settled(fut[i]) => fut'[i] \in {fut[i], NoFuture}
    /\ \A i \in Ids : (fut[i] = NoFuture /\ i < next_call_id) => fut'[i] = NoFuture
    /\ \A k \in Callers : call[k].pc = "done" => call'[k] = call[k]
    /\ \A k \in Callers :
          Returns(k) /\ call[k].pc = "await" =>
              call'[k].outcome =
                  CASE fut[call[k].id].st = "result" -> "result"
                    [] fut[call[k].id].st = "exception" -> "RemoteError"
                    [] OTHER -> call'[k].outcome
    /\ (/\ ReaderConsumes /\ HeadReply.ok
        /\ HeadReply.call_id \in _pending_calls
        /\ fut[HeadReply.call_id].st = "cancelled") =>
          /\ fut'[HeadReply.call_id] \in {fut[HeadReply.call_id], NoFuture}
          /\ call' = call
          /\ hist'.raised = hist.raised
C36_OneOutcome ==
    /\ [][C36_Step]_allvars
    /\ [](\A k \in Callers :
             /\ call[k].pc = "done" => call[k].outcome \in Outcomes
             /\ call[k].pc # "done" => call[k].outcome = "none"
             /\ call[k].outcome \in {"Timeout", "CancelledError"} =>
                   fut[call[k].id].st \in {"unset", "cancelled"})
C36_Witness ==
    /\ call[1].outcome = "CancelledError"
    /\ fut[1] = NoFuture
    /\ 1 \notin _pending_calls
    /\ call[2].outcome = "Timeout"
    /\ 2 \in hist.dropped
    /\ hist.raised = 0

\* the call id the frame at position n of the response ring decodes to
ReplyId(n) == deserialize_response(resp_ring[n]).call_id

\* C34: the reader takes replies in arrival order and each frame once: a
\* step either leaves the response ring alone, appends a frame behind the
\* ones waiting, or removes the oldest one, whether that reply is delivered,
\* dropped or undecodable; a future is completed only in the step that
\* removes the reply carrying its call id from the front of the ring, so a
\* call whose reply waits behind another is not completed before it.
C34_Step ==
    /\ \/ resp_ring' = resp_ring
       \/ \E q \in work, kind \in ReplyKinds :
              resp_ring' = Append(resp_ring, Reply(q, kind))
       \/ ReaderConsumes
    /\ \A i \in Ids :
          (fut[i].st = "pending" /\ fut'[i].st \in {"result", "exception"}) =>
              /\ ReaderConsumes
              /\ HeadReply.ok
              /\ HeadReply.call_id = i
    /\ \A n \in 2..Len(resp_ring) :
          (ReplyId(n) \in Ids /\ ReplyId(n) # HeadReply.call_id) =>
              (fut[ReplyId(n)].st = "pending" =>
                  fut'[ReplyId(n)].st \notin {"result", "exception"})
    /\ (ReaderConsumes /\ ~HeadReply.ok) =>
          /\ fut' = fut
          /\ _pending_calls' = _pending_calls
          /\ call' = call
C34_ArrivalOrder == [][C34_Step]_allvars
C34_Witness ==
    /\ hist.ahead
    /\ resp_ring = <<ReplyResult([call_id |-> 1])>>
    /\ fut[1].st = "pending"
    /\ fut[2].st = "result"
    /\ call[1].pc = "await"
    /\ call[2].pc = "await"

\* this step closes a ring the client had attached
Closes ==
    \/ request_buffer /\ ~request_buffer'
    \/ response_buffer /\ ~response_buffer'

\* C33: disconnect() sets _shutdown, then waits for the reader task, which
\* it cancels when the grace period ends, and only then closes both rings:
\* while it waits _shutdown is set and both rings stay attached, a ring is
\* closed only with _shutdown set and the referenced reader task finished, a
\* reader takes a frame only from an attached ring with _shutdown clear, and
\* a disconnect() that waits always comes to its end.
C33_Step ==
    /\ (dis.pc = "idle" /\ dis'.pc = "waiting") =>
          /\ _shutdown'
          /\ ~Closes
          /\ _response_reader_task = "live"
    /\ Closes =>
          /\ _shutdown'
          /\ dis.pc = "waiting" => _shutdown
          /\ _response_reader_task' # "live"
          /\ ~request_buffer' /\ ~response_buffer'
          /\ dis'.pc = "idle"
    /\ (dis.pc = "waiting" /\ dis'.pc = "idle") =>
          /\ ~request_buffer' /\ ~response_buffer'
          /\ dis'.outcome = "ok"
    /\ ReaderConsumes => response_buffer /\ ~_shutdown /\ dis.pc = "idle"
C33_DisconnectOrder ==
    /\ [][C33_Step]_allvars
    /\ [](dis.pc = "waiting" => _shutdown /\ request_buffer /\ response_buffer)
    /\ (dis.pc = "waiting" ~> dis.pc = "idle")
C33_Witness ==
    /\ dis = [pc |-> "idle", outcome |-> "ok"]
    /\ _response_reader_task = "cancelled"
    /\ ~request_buffer /\ ~response_buffer
    /\ _shutdown
    /\ resp_ring # << >>

\* the response ring holds a reply carrying call id i
ReplyWaits(i) == \E n \in 1..Len(resp_ring) : resp_ring[n].call_id = i

\* C31: after bridge.initialize() has returned, a synchronous bridge call
\* that waits while its reply is in the response ring has a reader that can
\* deliver it: the client's reader task is alive, with _shutdown clear and
\* the response ring attached.
C31_SyncCallsAnswered ==
    \A k \in Callers :
        (/\ reader_loop = "closed"
         /\ call[k].pc = "await"
         /\ ReplyWaits(call[k].id)) =>
            /\ _response_reader_task = "live"
            /\ ~_shutdown
            /\ response_buffer

\* thread t leaves future.result() in this step
Receives(t) == pump[t].pc = "waiting" /\ pump'[t].pc = "idle"

\* C32: with several threads calling through one connected facade, the call
\* ids and the pending table change only in steps of the loop, never in a
\* step of a calling thread, which changes nothing of the client; every
\* call takes the next id, different from the id of every other call, and
\* future.result() gives each thread the outcome of its own call, a result
\* being the reply to the id its call took.
C32_Step ==
    /\ (next_call_id' # next_call_id \/ _pending_calls' # _pending_calls) => pump' = pump
    /\ pump' # pump => cvars' = cvars
    /\ \A k \in Callers :
          (Starts(k) /\ call'[k].id # 0) =>
              /\ k \in Submitted
              /\ call'[k].id = next_call_id
              /\ next_call_id' = next_call_id + 1
              /\ \A j \in Callers \ {k} : call[j].id # call'[k].id
    /\ \A t \in Threads :
          Receives(t) =>
              /\ pump'[t].got.outcome = call[pump[t].k].outcome
              /\ pump'[t].got.outcome = "result" =>
                    pump'[t].got.val = [result_of |-> call[pump[t].k].id]
C32_OnTheLoop ==
    /\ [][C32_Step]_allvars
    /\ [](\A j, k \in Callers : (j # k /\ call[j].id # 0) => call[j].id # call[k].id)
    /\ [](\A s, t \in Threads : (s # t /\ pump[s].k # 0) => pump[s].k # pump[t].k)
C32_Witness ==
    /\ hist.ahead
    /\ pump[1] = Waiting(1)
    /\ call[1].pc = "await"
    /\ pump[2] = Resting([outcome |-> "result", val |-> [result_of |-> 2]])

\* the request ring still holds a request carrying call id i
RequestWaits(i) == \E n \in 1..Len(req_ring) : req_ring[n].call_id = i

\* C37: over the connections of one facade a call returns only a reply the
\* daemon made for the call's own request: no call returns a result while
\* its request is still in the request ring, unread by the daemon.
C37_Step ==
    \A k \in Callers :
        (Returns(k) /\ call'[k].outcome = "result") => ~RequestWaits(call[k].id)
C37_OwnReply == [][C37_Step]_allvars

====
